---- MODULE Spec2Model ----
(***************************************************************************)
(* Scheduling core of Quantum_Simulation_Scheduling: the greedy            *)
(* decreasing-demand list scheduler (FFD, schedule_jobs_parallel) and the  *)
(* tick-based concurrent allocator (MTMC,                                  *)
(* multi_task_multi_chip_scheduling).  Times are integers: the default    *)
(* base_time_per_qubit is 1.0 and every start, end and probe step of the   *)
(* code is then a whole number held in a float.                            *)
(***************************************************************************)
EXTENDS Integers, Sequences, FiniteSets, TLC

(***************************************************************************)
(* Bounds of the explored inputs.                                          *)
(***************************************************************************)
MaxJobs == 3
MaxQubits == 3
MaxMachines == 2
MaxCapacity == 3
MaxTasks == 3
MaxTaskQubits == 2
MaxChips == 2
MaxChipCapacity == 2

VARIABLES
    \* ---- inputs of a call (the caller's mappings, in iteration order)
    job_capacities,        \* sequence of [job, qubits]
    machine_capacities,    \* sequence of [machine, capacity]
    base_time_per_qubit,
    \* ---- FFD: schedule_jobs_parallel
    pc,                    \* position of the FFD call
    call,                  \* 1 for the first call, 2 for the repeated one
    first_schedule,        \* what the first call returned
    sorted_jobs,
    ji,                    \* index of the job of the outer for loop
    mi,                    \* index of the machine of the inner for loop
    machines,              \* per-machine local schedules
    schedule,
    earliest_start,
    chosen_machine,
    chosen_schedule_entry,
    \* ---- MTMC: multi_task_multi_chip_scheduling
    chiplist,              \* sequence of [name, capacity]
    tasks,                 \* sequence of [name, qubits]
    mpc,                   \* position of the MTMC call
    task_remaining,
    tasklist,              \* the tick's sorted pending tasks
    waiting,               \* indices of tasklist whose worker has not run yet
    chip_status,           \* chip name -> [capacity, running_tasks]
    global_time,
    allocated,             \* MultiTaskMultiChipsPreAlloc's lists
    no_execute,
    results_success,
    result_json,
    \* ---- find_earliest_start called on its own (component and benchmarks FFD)
    fes_schedule,          \* machine_schedule: sequence of [qubits, start, end]
    fes_capacity,          \* machine_capacity
    fes_qubits,            \* job_qubits
    fes_base,              \* base_time_per_qubit
    fes_pc,                \* position of the call
    fes_t,                 \* t of the running while loop
    fes_answer,            \* the last feasibility test made: [t, duration, ok]
    fes_result,            \* what the component's function returned
    bench_result,          \* what the benchmarks' function returned
    \* ---- the exact scheduler: example_problem of MILQ_extend and the reader
    lp_job_capacities,     \* the caller's real jobs: sequence of [job, qubits]
    lp_accelerators,       \* sequence of [machine, capacity]
    lp_pc,                 \* position of the call
    lp_status,             \* what the solver reported
    lp_values,             \* varValue of the solved variables
    lp_extracted,          \* the jobs as _extract_gurobi_results built them
    lp_jobs,               \* the same JobResultInfo objects after _calc_makespan
    lp_makespan,
    lp_doc,                \* the JSON document written
    rows_list,             \* what _read_solution_file made of the document
    lp_args,               \* the caller's argument objects: [jobs, job_capacities,
                           \* machine_capacities]
    lp_call,               \* 1 for the first call, 2 for the repeated one
    lp_big_m,              \* the big_m the caller configures (InfoProblem.big_m)
    lp_built,              \* the big-M of the constraints built: [base, extended]
    \* ---- assert_schedule_validity
    val_schedule,          \* the list of entries handed to the check
    val_machines,          \* sequence of [machine, capacity]
    val_pc,
    val_call,              \* 1 for the first check, 2 for the repeated one
    val_i,                 \* index of the entry of the for loop
    val_verdict,           \* "valid" (returned) or "invalid" (AssertionError)
    val_first,             \* the verdict of the first check
    \* ---- _extract_gurobi_results on the names of the solved variables
    nm_machines,           \* the machine ids, each the pieces between its underscores
    nm_x,                  \* job -> index of the machine whose x variable is 1
    nm_pc,
    nm_extracted,          \* job -> the machine the extraction gave it
    \* ---- JobSchedulerUpdater.update_scheduler_jobs
    upd_job_data,          \* sequence of [job, qubits]
    upd_scheduler_job,     \* job name -> the qubits of its JobInfo
    upd_strict_mode,
    upd_pc,
    upd_i,                 \* index of the job of the for loop
    upd_result             \* [updated_jobs, skipped_jobs, errors]

ffd_vars == <<pc, call, first_schedule, sorted_jobs, ji, mi, machines, schedule,
              earliest_start, chosen_machine, chosen_schedule_entry>>
input_vars == <<job_capacities, machine_capacities, base_time_per_qubit>>
mtmc_vars == <<chiplist, tasks, mpc, task_remaining, tasklist, waiting, chip_status,
               global_time, allocated, no_execute, results_success, result_json>>
fes_vars == <<fes_schedule, fes_capacity, fes_qubits, fes_base, fes_pc, fes_t,
              fes_answer, fes_result, bench_result>>
lp_vars == <<lp_job_capacities, lp_accelerators, lp_pc, lp_status, lp_values,
             lp_extracted, lp_jobs, lp_makespan, lp_doc, rows_list, lp_args, lp_call,
             lp_big_m, lp_built>>
val_vars == <<val_schedule, val_machines, val_pc, val_call, val_i, val_verdict,
              val_first>>
nm_vars == <<nm_machines, nm_x, nm_pc, nm_extracted>>
upd_vars == <<upd_job_data, upd_scheduler_job, upd_strict_mode, upd_pc, upd_i,
              upd_result>>
\* What none of the schedulers touches
other_vars == <<nm_vars, upd_vars>>
\* What neither FFD nor MTMC touches
rest_vars == <<fes_vars, lp_vars, val_vars, other_vars>>
vars == <<input_vars, ffd_vars, mtmc_vars, fes_vars, lp_vars, val_vars, other_vars>>

(***************************************************************************)
(* Values.                                                                 *)
(***************************************************************************)
\* float('inf'): greater than every start time.
Inf == -1
\* Python's None for chosen_machine.
NoneVal == "None"
\* Python's None for chosen_schedule_entry.
NoEntry == [job |-> <<>>, qubits |-> 0, machine |-> NoneVal, capacity |-> 0,
            start |-> 0, end |-> 0, duration |-> 0]
\* Truth value of a machine name in `if chosen_machine and ...`: None and the
\* empty string are false.
Truthy(name) == name # NoneVal /\ name # ""

\* Job ids are strings of digits, kept as sequences of digits: "2", "10", "1", "3".
\* The i-th key of the job mapping.
JobName(i) == CASE i = 1 -> <<2>> [] i = 2 -> <<1, 0>> [] i = 3 -> <<1>>
                [] i = 4 -> <<3>> [] OTHER -> <<9, i>>
\* The i-th key of the machine mapping, for the two namings explored.
MachineName(naming, i) == CASE i = 1 -> (IF naming = 1 THEN "A" ELSE "")
                            [] i = 2 -> "B" [] i = 3 -> "C" [] OTHER -> "D"

SeqSum(s) == LET RECURSIVE Go(_)
                 Go(k) == IF k = 0 THEN 0 ELSE s[k] + Go(k - 1)
             IN Go(Len(s))
Max(S) == CHOOSE x \in S : \A y \in S : y <= x
Min(S) == CHOOSE x \in S : \A y \in S : x <= y

(***************************************************************************)
(* Feasibility primitive: find_earliest_start.                             *)
(***************************************************************************)
\* Mutant of line 16: an entry ending at t still counts as overlapping
OverlapsM(t, duration, job) == ~(t + duration <= job.start \/ t > job.end)

\* line 16: the entry overlaps the probed interval [t, t + duration]
Overlaps(t, duration, job) == ~(t + duration <= job.start \/ t >= job.end)

\* lines 14-17: summed qubits of the entries overlapping the probed interval
Load(machine_schedule, t, duration) ==
    SeqSum([k \in DOMAIN machine_schedule |->
              IF Overlaps(t, duration, machine_schedule[k])
              THEN machine_schedule[k].qubits ELSE 0])

\* Mutant of line 19: the job's own qubits are left out of the sum
FeasibleM(machine_schedule, machine_capacity, job_qubits, t, duration) ==
    Load(machine_schedule, t, duration) <= machine_capacity

\* line 19
Feasible(machine_schedule, machine_capacity, job_qubits, t, duration) ==
    Load(machine_schedule, t, duration) + job_qubits <= machine_capacity

\* The last end time on the machine (0 for an empty schedule): from there on no
\* entry overlaps a probe, so every later iteration of the loop computes load 0.
LastEnd(machine_schedule) ==
    Max({0} \cup {machine_schedule[k].end : k \in DOMAIN machine_schedule})

\* lines 6-21.  [ret |-> TRUE, t |-> the returned time], or ret |-> FALSE when the
\* while True loop never returns: an infeasible probe at t >= LastEnd has load 0,
\* and so has every later probe.
FindEarliestStart(machine_schedule, machine_capacity, job_qubits, base_time) ==
    LET duration == job_qubits * base_time
        RECURSIVE Probe(_)
        Probe(t) ==
            IF Feasible(machine_schedule, machine_capacity, job_qubits, t, duration)
            THEN [ret |-> TRUE, t |-> t]
            ELSE IF t >= LastEnd(machine_schedule)
                 THEN [ret |-> FALSE, t |-> t]
                 ELSE Probe(t + 1)
    IN Probe(0)

(***************************************************************************)
(* FFD: schedule_jobs_parallel.                                            *)
(***************************************************************************)
\* Mutant of line 25: an item goes before the items of equal qubits, the sort is
\* not stable
SortedJobsM(items) ==
    LET RECURSIVE Ins(_, _)
        Ins(s, x) == IF s = <<>> THEN <<x>>
                     ELSE IF Head(s).qubits > x.qubits
                          THEN <<Head(s)>> \o Ins(Tail(s), x)
                          ELSE <<x>> \o s
        RECURSIVE Go(_)
        Go(k) == IF k = 0 THEN <<>> ELSE Ins(Go(k - 1), items[k])
    IN Go(Len(items))

\* line 25: sorted(items, key=-qubits), a stable sort: insertion of each item
\* after the items whose qubits are at least its own.
SortedJobs(items) ==
    LET RECURSIVE Ins(_, _)
        Ins(s, x) == IF s = <<>> THEN <<x>>
                     ELSE IF Head(s).qubits >= x.qubits
                          THEN <<Head(s)>> \o Ins(Tail(s), x)
                          ELSE <<x>> \o s
        RECURSIVE Go(_)
        Go(k) == IF k = 0 THEN <<>> ELSE Ins(Go(k - 1), items[k])
    IN Go(Len(items))

MachineNames == {machine_capacities[k].machine : k \in DOMAIN machine_capacities}

\* line 28
EmptyMachines == [name \in MachineNames |-> <<>>]

\* Mutant of line 49: `<=`, the last machine of equal start wins
EarlierM(start_time, earliest) == earliest = Inf \/ start_time <= earliest

\* start_time < earliest_start, with earliest_start possibly float('inf')
Earlier(start_time, earliest) == earliest = Inf \/ start_time < earliest

\* lines 52-60
Entry(job_id, qubit, machine_name, capacity, start_time, duration) ==
    [job |-> job_id, qubits |-> qubit, machine |-> machine_name,
     capacity |-> capacity, start |-> start_time, end |-> start_time + duration,
     duration |-> duration]

\* Mutant of line 33: jobs of one qubit are skipped as well
SkipsJobM(qubit) == qubit <= 1

\* line 33: `if qubit == 0: continue`
SkipsJob(qubit) == qubit = 0

\* Mutant of line 28: the per-machine schedules outlive the call (a module-level
\* dict instead of a local one)
FFD_CallM ==
    /\ pc = "idle"
    /\ sorted_jobs' = SortedJobs(job_capacities)
    /\ schedule' = <<>>
    /\ ji' = 1
    /\ pc' = "jobs"
    /\ UNCHANGED <<rest_vars, mtmc_vars, input_vars, call, first_schedule, mi, machines,
                   earliest_start, chosen_machine, chosen_schedule_entry>>

\* lines 25-30: entry into the call
FFD_Call ==
    /\ pc = "idle"
    /\ sorted_jobs' = SortedJobs(job_capacities)
    /\ machines' = EmptyMachines
    /\ schedule' = <<>>
    /\ ji' = 1
    /\ pc' = "jobs"
    /\ UNCHANGED <<rest_vars, mtmc_vars, input_vars, call, first_schedule, mi, earliest_start,
                   chosen_machine, chosen_schedule_entry>>

\* lines 32-34: a job of 0 qubits is skipped
FFD_SkipJob ==
    /\ pc = "jobs"
    /\ ji <= Len(sorted_jobs)
    /\ SkipsJob(sorted_jobs[ji].qubits)
    /\ ji' = ji + 1
    /\ UNCHANGED <<rest_vars, mtmc_vars, input_vars, pc, call, first_schedule, sorted_jobs, mi, machines,
                   schedule, earliest_start, chosen_machine, chosen_schedule_entry>>

\* Mutant of lines 33-34: the test for 0 qubits does not leave the iteration
FFD_BeginJobM ==
    /\ pc = "jobs"
    /\ ji <= Len(sorted_jobs)
    /\ earliest_start' = Inf
    /\ chosen_machine' = NoneVal
    /\ chosen_schedule_entry' = NoEntry
    /\ mi' = 1
    /\ pc' = "machines"
    /\ UNCHANGED <<rest_vars, mtmc_vars, input_vars, call, first_schedule, sorted_jobs, ji, machines,
                   schedule>>

\* lines 32-42: the next job of the loop
FFD_BeginJob ==
    /\ pc = "jobs"
    /\ ji <= Len(sorted_jobs)
    /\ ~SkipsJob(sorted_jobs[ji].qubits)
    /\ earliest_start' = Inf
    /\ chosen_machine' = NoneVal
    /\ chosen_schedule_entry' = NoEntry
    /\ mi' = 1
    /\ pc' = "machines"
    /\ UNCHANGED <<rest_vars, mtmc_vars, input_vars, call, first_schedule, sorted_jobs, ji, machines,
                   schedule>>

\* lines 44-60: one machine of the inner loop, find_earliest_start returning
FFD_ProbeMachine ==
    /\ pc = "machines"
    /\ mi <= Len(machine_capacities)
    /\ LET machine_name == machine_capacities[mi].machine
           capacity == machine_capacities[mi].capacity
           qubit == sorted_jobs[ji].qubits
           duration == qubit * base_time_per_qubit
           found == FindEarliestStart(machines[machine_name], capacity, qubit,
                                      base_time_per_qubit)
       IN /\ found.ret
          /\ IF Earlier(found.t, earliest_start)
             THEN /\ earliest_start' = found.t
                  /\ chosen_machine' = machine_name
                  /\ chosen_schedule_entry' =
                         Entry(sorted_jobs[ji].job, qubit, machine_name, capacity,
                               found.t, duration)
             ELSE UNCHANGED <<earliest_start, chosen_machine, chosen_schedule_entry>>
    /\ mi' = mi + 1
    /\ UNCHANGED <<rest_vars, mtmc_vars, input_vars, pc, call, first_schedule, sorted_jobs, ji, machines,
                   schedule>>

\* line 46 with lines 12-21 never returning: the call is stuck in the probe loop
FFD_ProbeForever ==
    /\ pc = "machines"
    /\ mi <= Len(machine_capacities)
    /\ ~FindEarliestStart(machines[machine_capacities[mi].machine],
                          machine_capacities[mi].capacity, sorted_jobs[ji].qubits,
                          base_time_per_qubit).ret
    /\ pc' = "hung"
    /\ UNCHANGED <<rest_vars, mtmc_vars, input_vars, call, first_schedule, sorted_jobs, ji, mi, machines,
                   schedule, earliest_start, chosen_machine, chosen_schedule_entry>>

\* lines 62-67: the job is appended to the schedule and to its machine
FFD_Place ==
    /\ pc = "machines"
    /\ mi > Len(machine_capacities)
    /\ Truthy(chosen_machine) /\ chosen_schedule_entry # NoEntry
    /\ schedule' = Append(schedule, chosen_schedule_entry)
    /\ machines' = [machines EXCEPT
                      ![chosen_machine] = Append(@, chosen_schedule_entry)]
    /\ ji' = ji + 1
    /\ pc' = "jobs"
    /\ UNCHANGED <<rest_vars, mtmc_vars, input_vars, call, first_schedule, sorted_jobs, mi, earliest_start,
                   chosen_machine, chosen_schedule_entry>>

\* lines 69-70: RuntimeError
FFD_Raise ==
    /\ pc = "machines"
    /\ mi > Len(machine_capacities)
    /\ ~(Truthy(chosen_machine) /\ chosen_schedule_entry # NoEntry)
    /\ pc' = "raised"
    /\ UNCHANGED <<rest_vars, mtmc_vars, input_vars, call, first_schedule, sorted_jobs, ji, mi, machines,
                   schedule, earliest_start, chosen_machine, chosen_schedule_entry>>

\* line 72
FFD_Return ==
    /\ pc = "jobs"
    /\ ji > Len(sorted_jobs)
    /\ pc' = "returned"
    /\ UNCHANGED <<rest_vars, mtmc_vars, input_vars, call, first_schedule, sorted_jobs, ji, mi, machines,
                   schedule, earliest_start, chosen_machine, chosen_schedule_entry>>

\* The caller keeps the returned list and calls again with the same mappings.
FFD_CallAgain ==
    /\ pc = "returned"
    /\ call = 1
    /\ first_schedule' = schedule
    /\ call' = 2
    /\ pc' = "idle"
    /\ UNCHANGED <<rest_vars, mtmc_vars, input_vars, sorted_jobs, ji, mi, machines, schedule,
                   earliest_start, chosen_machine, chosen_schedule_entry>>

(***************************************************************************)
(* Inputs.                                                                 *)
(***************************************************************************)
JobMappings ==
    UNION {{[i \in 1..n |-> [job |-> JobName(i), qubits |-> q[i]]] :
              q \in [1..n -> 0..MaxQubits]} : n \in 0..MaxJobs}

MachineMappings ==
    UNION {{[i \in 1..n |-> [machine |-> MachineName(naming, i), capacity |-> c[i]]] :
              c \in [1..n -> 0..MaxCapacity], naming \in {1, 2}} : n \in 0..MaxMachines}

\* The worked example of the specification: jobs {"1": 5, "2": 8, "3": 3}, machines {"A": 10, "B": 7}.
ExampleJobs == <<[job |-> <<1>>, qubits |-> 5], [job |-> <<2>>, qubits |-> 8],
                 [job |-> <<3>>, qubits |-> 3]>>
ExampleMachines == <<[machine |-> "A", capacity |-> 10],
                     [machine |-> "B", capacity |-> 7]>>

\* base_time_per_qubit=1.0, the default of schedule_jobs_parallel
DefaultBaseTime == 1

(***************************************************************************)
(* Each scheduler is a call of its own: while one runs, the state of the   *)
(* other is not in use.                                                    *)
(***************************************************************************)
MTMC_NotInUse ==
    /\ chiplist = <<>>
    /\ tasks = <<>>
    /\ mpc = "unused"
    /\ task_remaining = <<>>
    /\ tasklist = <<>>
    /\ waiting = {}
    /\ chip_status = <<>>
    /\ global_time = 0
    /\ allocated = <<>>
    /\ no_execute = <<>>
    /\ results_success = <<>>
    /\ result_json = <<>>

FFD_NotInUse ==
    /\ job_capacities = <<>>
    /\ machine_capacities = <<>>
    /\ base_time_per_qubit = DefaultBaseTime
    /\ pc = "unused"
    /\ call = 1
    /\ first_schedule = <<>>
    /\ sorted_jobs = <<>>
    /\ ji = 1
    /\ mi = 1
    /\ machines = <<>>
    /\ schedule = <<>>
    /\ earliest_start = Inf
    /\ chosen_machine = NoneVal
    /\ chosen_schedule_entry = NoEntry

\* No feasibility test made yet
NoAnswer == [t |-> 0, duration |-> 0, ok |-> FALSE]

FES_NotInUse ==
    /\ fes_schedule = <<>>
    /\ fes_capacity = 0
    /\ fes_qubits = 0
    /\ fes_base = DefaultBaseTime
    /\ fes_pc = "unused"
    /\ fes_t = 0
    /\ fes_answer = NoAnswer
    /\ fes_result = Inf
    /\ bench_result = Inf

\* No values: varValue is None; no document written
NoValues == <<>>
NoDoc == <<>>
\* No call made, no program built
NoArgs == [jobs |-> <<>>, job_capacities |-> <<>>, machine_capacities |-> <<>>]
NotBuilt == [base |-> 0, extended |-> 0]

LP_NotInUse ==
    /\ lp_job_capacities = <<>>
    /\ lp_accelerators = <<>>
    /\ lp_pc = "unused"
    /\ lp_status = "Not Solved"
    /\ lp_values = NoValues
    /\ lp_extracted = <<>>
    /\ lp_jobs = <<>>
    /\ lp_makespan = 0
    /\ lp_doc = NoDoc
    /\ rows_list = <<>>
    /\ lp_args = NoArgs
    /\ lp_call = 1
    /\ lp_big_m = 0
    /\ lp_built = NotBuilt

Val_NotInUse ==
    /\ val_schedule = <<>>
    /\ val_machines = <<>>
    /\ val_pc = "unused"
    /\ val_call = 1
    /\ val_i = 1
    /\ val_verdict = "none"
    /\ val_first = "none"

\* No names extracted
Names_NotInUse ==
    /\ nm_machines = <<>>
    /\ nm_x = <<>>
    /\ nm_pc = "unused"
    /\ nm_extracted = <<>>

NoResult == [updated_jobs |-> {}, skipped_jobs |-> {}, errors |-> {}]

Upd_NotInUse ==
    /\ upd_job_data = <<>>
    /\ upd_scheduler_job = <<>>
    /\ upd_strict_mode = FALSE
    /\ upd_pc = "unused"
    /\ upd_i = 1
    /\ upd_result = NoResult

Other_NotInUse == Names_NotInUse /\ Upd_NotInUse

FFD_Init ==
    /\ MTMC_NotInUse
    /\ Other_NotInUse
    /\ FES_NotInUse
    /\ LP_NotInUse
    /\ Val_NotInUse
    /\ \/ /\ job_capacities \in JobMappings
          /\ machine_capacities \in MachineMappings
       \/ /\ job_capacities = ExampleJobs
          /\ machine_capacities = ExampleMachines
    /\ base_time_per_qubit = DefaultBaseTime
    /\ pc = "idle"
    /\ call = 1
    /\ first_schedule = <<>>
    /\ sorted_jobs = <<>>
    /\ ji = 1
    /\ mi = 1
    /\ machines = EmptyMachines
    /\ schedule = <<>>
    /\ earliest_start = Inf
    /\ chosen_machine = NoneVal
    /\ chosen_schedule_entry = NoEntry

FFD_Next ==
    \/ FFD_Call
    \/ FFD_SkipJob
    \/ FFD_BeginJob
    \/ FFD_ProbeMachine
    \/ FFD_ProbeForever
    \/ FFD_Place
    \/ FFD_Raise
    \/ FFD_Return
    \/ FFD_CallAgain

FFD_Spec == FFD_Init /\ [][FFD_Next]_vars

\* line 85: example_problem calls schedule_jobs_parallel with
\* base_time_per_qubit=10.0
ExampleBaseTime == 10

\* lines 75-90: a call made directly with the default base time, or through
\* example_problem, which writes the list it gets back to schedule.json as it is
FFD_EntryInit ==
    /\ MTMC_NotInUse
    /\ Other_NotInUse
    /\ FES_NotInUse
    /\ LP_NotInUse
    /\ Val_NotInUse
    /\ job_capacities \in JobMappings
    /\ machine_capacities \in MachineMappings
    /\ base_time_per_qubit \in {DefaultBaseTime, ExampleBaseTime}
    /\ pc = "idle"
    /\ call = 1
    /\ first_schedule = <<>>
    /\ sorted_jobs = <<>>
    /\ ji = 1
    /\ mi = 1
    /\ machines = EmptyMachines
    /\ schedule = <<>>
    /\ earliest_start = Inf
    /\ chosen_machine = NoneVal
    /\ chosen_schedule_entry = NoEntry

FFD_EntrySpec == FFD_EntryInit /\ [][FFD_Next]_vars
(***************************************************************************)
(* MTMC: multi_task_multi_chip_scheduling.                                 *)
(***************************************************************************)
\* Python's order of two strings of digits: a < b
RECURSIVE StrLess(_, _)
StrLess(a, b) ==
    IF a = <<>> THEN b # <<>>
    ELSE IF b = <<>> THEN FALSE
    ELSE IF Head(a) # Head(b) THEN Head(a) < Head(b)
    ELSE StrLess(Tail(a), Tail(b))

\* line 19: sorted(task_remaining, key=name), a stable sort
SortedByName(ts) ==
    LET RECURSIVE Ins(_, _)
        Ins(s, x) == IF s = <<>> THEN <<x>>
                     ELSE IF StrLess(x.name, Head(s).name)
                          THEN <<x>> \o s
                          ELSE <<Head(s)>> \o Ins(Tail(s), x)
        RECURSIVE Go(_)
        Go(k) == IF k = 0 THEN <<>> ELSE Ins(Go(k - 1), ts[k])
    IN Go(Len(ts))

\* line 25: one tick of a running task
Ticked(task) == [task EXCEPT !.time_left = @ - 1]

\* line 26
Finishes(task) == task.time_left = 0

\* Mutant of lines 26-27: every running task gives its qubits back, finished or not
ReturnedM(running) ==
    SeqSum([k \in DOMAIN running |-> running[k].qubits])

\* line 27: the capacity a chip gets back from the tasks finishing in this tick
Returned(running) ==
    SeqSum([k \in DOMAIN running |->
              IF Finishes(Ticked(running[k])) THEN running[k].qubits ELSE 0])

\* Mutant of line 27: a finished task's qubits are not given back to the chip
TickChipM(chip) ==
    LET ticked == [k \in DOMAIN chip.running_tasks |-> Ticked(chip.running_tasks[k])]
        StillRunning(t) == ~Finishes(t)
    IN [capacity |-> chip.capacity,
        running_tasks |-> SelectSeq(ticked, StillRunning)]

\* lines 23-29: a chip after the tick's pass over its running tasks
TickChip(chip) ==
    LET ticked == [k \in DOMAIN chip.running_tasks |-> Ticked(chip.running_tasks[k])]
        StillRunning(t) == ~Finishes(t)
    IN [capacity |-> chip.capacity + Returned(chip.running_tasks),
        running_tasks |-> SelectSeq(ticked, StillRunning)]

\* Mutant of line 20: the pending list is not emptied before line 34 extends it
ClearedRemainingM == task_remaining

\* line 20: task_remaining = []
ClearedRemaining == <<>>

\* Mutant of line 50: any chip with capacity left counts as able to take the task
CanTakeM(chip, task) == chip.capacity > 0

\* line 50: the chip can take the task
CanTake(chip, task) == chip.capacity >= task.qubits

\* Mutant of line 50: only the first chip of the list is looked at
PossibleChipsM(status, task) ==
    {i \in DOMAIN chiplist : i = 1 /\ CanTake(status[chiplist[i].name], task)}

\* line 50: indices (in chip_status order) of the chips that can take the task
PossibleChips(status, task) ==
    {i \in DOMAIN chiplist : CanTake(status[chiplist[i].name], task)}

\* Mutant of line 52: the last chip of greatest capacity
SelectedChipM(status, possible) ==
    CHOOSE i \in possible :
        /\ \A j \in possible : status[chiplist[j].name].capacity
                                  <= status[chiplist[i].name].capacity
        /\ \A j \in possible : j > i => status[chiplist[j].name].capacity
                                          < status[chiplist[i].name].capacity

\* line 52: max(possible_chips, key=capacity): the first chip of greatest capacity
SelectedChip(status, possible) ==
    CHOOSE i \in possible :
        /\ \A j \in possible : status[chiplist[j].name].capacity
                                  <= status[chiplist[i].name].capacity
        /\ \A j \in possible : j < i => status[chiplist[j].name].capacity
                                          < status[chiplist[i].name].capacity

\* Mutant of line 57: the task runs one tick longer than its qubits
TaskCopyM(task, selected_chip, capacity_left, time) ==
    [name |-> task.name, qubits |-> task.qubits, assigned_chip |-> selected_chip,
     capacity |-> capacity_left + task.qubits, time_left |-> task.qubits + 1,
     start_time |-> time, end_time |-> time + task.qubits,
     duration |-> (time + task.qubits) - time]

\* lines 54-60
TaskCopy(task, selected_chip, capacity_left, time) ==
    [name |-> task.name, qubits |-> task.qubits, assigned_chip |-> selected_chip,
     capacity |-> capacity_left + task.qubits, time_left |-> task.qubits,
     start_time |-> time, end_time |-> time + task.qubits,
     duration |-> (time + task.qubits) - time]

\* The running tasks are the very dicts held in results_success: line 25 is seen
\* through both.
TickedRecord(rs, status) ==
    [k \in DOMAIN rs |->
        IF \E c \in DOMAIN status : \E r \in DOMAIN status[c].running_tasks :
               status[c].running_tasks[r].name = rs[k].name
        THEN Ticked(rs[k]) ELSE rs[k]]

\* Mutant of line 80: the capacity is read from the task's own record, which holds
\* what the chip had left when the task was allocated
FormatResultJsonM(rs) ==
    LET Out(t) == [job |-> t.name, qubits |-> t.qubits, machine |-> t.assigned_chip,
                   capacity |-> t.capacity, start |-> t.start_time,
                   end |-> t.end_time, duration |-> t.duration]
        RECURSIVE Ins(_, _)
        Ins(s, x) == IF s = <<>> THEN <<x>>
                     ELSE IF x.start_time < Head(s).start_time
                          THEN <<x>> \o s
                          ELSE <<Head(s)>> \o Ins(Tail(s), x)
        RECURSIVE Go(_)
        Go(k) == IF k = 0 THEN <<>> ELSE Ins(Go(k - 1), rs[k])
        sorted == Go(Len(rs))
    IN [k \in DOMAIN sorted |-> Out(sorted[k])]

\* lines 72-87: format_result_json, sorted(results_success, key=start_time)
FormatResultJson(rs) ==
    LET ChipCapacity(name) ==
            chiplist[CHOOSE i \in DOMAIN chiplist : chiplist[i].name = name].capacity
        Out(t) == [job |-> t.name, qubits |-> t.qubits, machine |-> t.assigned_chip,
                   capacity |-> ChipCapacity(t.assigned_chip), start |-> t.start_time,
                   end |-> t.end_time, duration |-> t.duration]
        RECURSIVE Ins(_, _)
        Ins(s, x) == IF s = <<>> THEN <<x>>
                     ELSE IF x.start_time < Head(s).start_time
                          THEN <<x>> \o s
                          ELSE <<Head(s)>> \o Ins(Tail(s), x)
        RECURSIVE Go(_)
        Go(k) == IF k = 0 THEN <<>> ELSE Ins(Go(k - 1), rs[k])
        sorted == Go(Len(rs))
    IN [k \in DOMAIN sorted |-> Out(sorted[k])]

\* The loop of lines 16-37 has no bound.  A run that returns does so within the
\* summed durations plus one tick; the model follows a run two ticks further.
TickLimit == SeqSum([k \in DOMAIN tasks |-> tasks[k].qubits]) + 2

\* line 16
LoopCondition ==
    \/ task_remaining # <<>>
    \/ \E i \in DOMAIN chiplist : chip_status[chiplist[i].name].running_tasks # <<>>

\* lines 8-14
MTMC_Call ==
    /\ mpc = "idle"
    /\ task_remaining' = tasks
    /\ results_success' = <<>>
    /\ chip_status' = [name \in {chiplist[i].name : i \in DOMAIN chiplist} |->
                         [capacity |-> (chiplist[CHOOSE i \in DOMAIN chiplist :
                                                   chiplist[i].name = name]).capacity,
                          running_tasks |-> <<>>]]
    /\ global_time' = 0
    /\ mpc' = "loop"
    /\ UNCHANGED <<rest_vars, input_vars, ffd_vars, chiplist, tasks, tasklist, waiting, allocated,
                   no_execute, result_json>>

\* lines 16-29 and 43-45: the tick's pass over the running tasks, then the pool
\* of workers is started on the sorted pending tasks
MTMC_TickBegin ==
    /\ mpc = "loop"
    /\ LoopCondition
    /\ global_time < TickLimit
    /\ tasklist' = SortedByName(task_remaining)
    /\ task_remaining' = ClearedRemaining
    /\ chip_status' = [name \in DOMAIN chip_status |-> TickChip(chip_status[name])]
    /\ results_success' = TickedRecord(results_success, chip_status)
    /\ waiting' = DOMAIN SortedByName(task_remaining)
    /\ allocated' = <<>>
    /\ no_execute' = <<>>
    /\ mpc' = "pool"
    /\ UNCHANGED <<rest_vars, input_vars, ffd_vars, chiplist, tasks, global_time, result_json>>

\* lines 47-64: one worker's allocate_task, the whole body under the lock.  The
\* pool has at least five workers (min(32, cpu_count + 4)), more than the tasks of
\* a tick here, so every task has its own worker and the workers take the lock in
\* any order.
MTMC_AllocateTask(k) ==
    /\ mpc = "pool"
    /\ k \in waiting
    /\ waiting' = waiting \ {k}
    /\ LET task == tasklist[k]
           possible_chips == PossibleChips(chip_status, task)
       IN IF possible_chips # {}
          THEN LET selected_chip ==
                       chiplist[SelectedChip(chip_status, possible_chips)].name
                   left == chip_status[selected_chip].capacity - task.qubits
                   task_copy == TaskCopy(task, selected_chip, left, global_time)
               IN /\ chip_status' =
                         [chip_status EXCEPT
                            ![selected_chip].capacity = left,
                            ![selected_chip].running_tasks = Append(@, task_copy)]
                  /\ allocated' = Append(allocated, task_copy)
                  /\ UNCHANGED no_execute
          ELSE /\ no_execute' = Append(no_execute, task)
               /\ UNCHANGED <<chip_status, allocated>>
    /\ UNCHANGED <<rest_vars, input_vars, ffd_vars, chiplist, tasks, mpc, task_remaining, tasklist,
                   global_time, results_success, result_json>>

\* lines 66-67: executor.map runs allocate_task for every task of the tick
MTMC_Worker == \E k \in DOMAIN tasks : MTMC_AllocateTask(k)

\* lines 66-69 and 31-37: the pool has run every worker; the tick ends
MTMC_TickEnd ==
    /\ mpc = "pool"
    /\ waiting = {}
    /\ results_success' = results_success \o allocated
    /\ task_remaining' = task_remaining \o no_execute
    /\ global_time' = global_time + 1
    /\ mpc' = "loop"
    /\ UNCHANGED <<rest_vars, input_vars, ffd_vars, chiplist, tasks, tasklist, waiting, chip_status,
                   allocated, no_execute, result_json>>

\* line 39
MTMC_Return ==
    /\ mpc = "loop"
    /\ ~LoopCondition
    /\ result_json' = FormatResultJson(results_success)
    /\ mpc' = "returned"
    /\ UNCHANGED <<rest_vars, input_vars, ffd_vars, chiplist, tasks, task_remaining, tasklist,
                   waiting, chip_status, global_time, allocated, no_execute,
                   results_success>>

\* lines 91-92: the lists example_problem builds from the two mappings
TaskLists ==
    UNION {{[i \in 1..n |-> [name |-> JobName(i), qubits |-> q[i]]] :
              q \in [1..n -> 1..MaxTaskQubits]} : n \in 0..MaxTasks}

ChipLists ==
    UNION {{[i \in 1..n |-> [name |-> MachineName(1, i), capacity |-> c[i]]] :
              c \in [1..n -> 1..MaxChipCapacity]} : n \in 0..MaxChips}

MTMC_Init ==
    /\ FFD_NotInUse
    /\ Other_NotInUse
    /\ FES_NotInUse
    /\ LP_NotInUse
    /\ Val_NotInUse
    /\ chiplist \in ChipLists
    /\ tasks \in TaskLists
    /\ mpc = "idle"
    /\ task_remaining = <<>>
    /\ tasklist = <<>>
    /\ waiting = {}
    /\ chip_status = <<>>
    /\ global_time = 0
    /\ allocated = <<>>
    /\ no_execute = <<>>
    /\ results_success = <<>>
    /\ result_json = <<>>

MTMC_Next ==
    \/ MTMC_Call
    \/ MTMC_TickBegin
    \/ MTMC_Worker
    \/ MTMC_TickEnd
    \/ MTMC_Return

MTMC_Spec == MTMC_Init /\ [][MTMC_Next]_vars

\* The interpreter runs the main thread and every worker of the pool: no enabled
\* step is put off forever.
MTMC_FairSpec == MTMC_Spec /\ WF_vars(MTMC_Next)

\* lines 91-92 again: the mapping's values are taken as they come, 0 included
TaskListsWithZero ==
    UNION {{[i \in 1..n |-> [name |-> JobName(i), qubits |-> q[i]]] :
              q \in [1..n -> 0..MaxTaskQubits]} : n \in 0..MaxTasks}

\* A call whose tasks may ask for 0 qubits
MTMC_ZeroInit ==
    /\ FFD_NotInUse
    /\ Other_NotInUse
    /\ FES_NotInUse
    /\ LP_NotInUse
    /\ Val_NotInUse
    /\ chiplist \in ChipLists
    /\ tasks \in TaskListsWithZero
    /\ mpc = "idle"
    /\ task_remaining = <<>>
    /\ tasklist = <<>>
    /\ waiting = {}
    /\ chip_status = <<>>
    /\ global_time = 0
    /\ allocated = <<>>
    /\ no_execute = <<>>
    /\ results_success = <<>>
    /\ result_json = <<>>

MTMC_ZeroSpec == MTMC_ZeroInit /\ [][MTMC_Next]_vars

(***************************************************************************)
(* A caller runs one of the two schedulers on its mappings.                *)
(***************************************************************************)
Sched_Init == FFD_Init \/ MTMC_Init

Sched_Next == FFD_Next \/ MTMC_Next

Sched_Spec == Sched_Init /\ [][Sched_Next]_vars
(***************************************************************************)
(* find_earliest_start on its own: the function of the component's FFD      *)
(* module (inline feasibility test, duration = job_qubits *                *)
(* base_time_per_qubit) and the one of the benchmarks' FFD module (test in *)
(* can_run_at_time, duration = job_qubits), each called on an arbitrary    *)
(* machine schedule.                                                       *)
(***************************************************************************)
MaxEntries == 2
MaxEnd == 2
MaxEntryQubits == 2

\* Mutant of benchmarks line 46: an entry that ends exactly at the probed start
\* still counts as overlapping
can_run_at_timeM(machine_schedule, machine_capacity, job_qubits, start, duration) ==
    LET RECURSIVE Loop(_, _)
        Loop(k, load) ==
            IF k > Len(machine_schedule) THEN load
            ELSE Loop(k + 1,
                      IF ~(start + duration <= machine_schedule[k].start
                           \/ start > machine_schedule[k].end)
                      THEN load + machine_schedule[k].qubits ELSE load)
    IN Loop(1, 0) + job_qubits <= machine_capacity

\* benchmarks lines 41-50: the for loop adds up the load, entry after entry
can_run_at_time(machine_schedule, machine_capacity, job_qubits, start, duration) ==
    LET RECURSIVE Loop(_, _)
        Loop(k, load) ==
            IF k > Len(machine_schedule) THEN load
            ELSE Loop(k + 1,
                      IF ~(start + duration <= machine_schedule[k].start
                           \/ start >= machine_schedule[k].end)
                      THEN load + machine_schedule[k].qubits ELSE load)
    IN Loop(1, 0) + job_qubits <= machine_capacity

\* component line 8
FES_Duration == fes_qubits * fes_base

\* benchmarks line 73
Bench_Duration == fes_qubits

\* Mutant of component line 9: the probe starts one step late
FES_CallM ==
    /\ fes_pc = "idle"
    /\ fes_t' = 1
    /\ fes_pc' = "component"
    /\ UNCHANGED <<other_vars, val_vars, lp_vars, input_vars, ffd_vars, mtmc_vars, fes_schedule, fes_capacity,
                   fes_qubits, fes_base, fes_answer, fes_result, bench_result>>

\* component lines 8-10: entry into find_earliest_start
FES_Call ==
    /\ fes_pc = "idle"
    /\ fes_t' = 0
    /\ fes_pc' = "component"
    /\ UNCHANGED <<other_vars, val_vars, lp_vars, input_vars, ffd_vars, mtmc_vars, fes_schedule, fes_capacity,
                   fes_qubits, fes_base, fes_answer, fes_result, bench_result>>

\* component lines 12-21: an iteration whose test fails, t += time_step
FES_Advance ==
    /\ fes_pc = "component"
    /\ ~Feasible(fes_schedule, fes_capacity, fes_qubits, fes_t, FES_Duration)
    /\ fes_t < LastEnd(fes_schedule)
    /\ fes_answer' = [t |-> fes_t, duration |-> FES_Duration, ok |-> FALSE]
    /\ fes_t' = fes_t + 1
    /\ UNCHANGED <<other_vars, val_vars, lp_vars, input_vars, ffd_vars, mtmc_vars, fes_schedule, fes_capacity,
                   fes_qubits, fes_base, fes_pc, fes_result, bench_result>>

\* component lines 19-20: the test holds, return t
FES_Return ==
    /\ fes_pc = "component"
    /\ Feasible(fes_schedule, fes_capacity, fes_qubits, fes_t, FES_Duration)
    /\ fes_answer' = [t |-> fes_t, duration |-> FES_Duration, ok |-> TRUE]
    /\ fes_result' = fes_t
    /\ fes_pc' = "returned"
    /\ UNCHANGED <<other_vars, val_vars, lp_vars, input_vars, ffd_vars, mtmc_vars, fes_schedule, fes_capacity,
                   fes_qubits, fes_base, fes_t, bench_result>>

\* component lines 12-21: the test fails past the last end time, where the load is
\* 0 at every later t as well: the loop never returns
FES_Forever ==
    /\ fes_pc = "component"
    /\ ~Feasible(fes_schedule, fes_capacity, fes_qubits, fes_t, FES_Duration)
    /\ fes_t >= LastEnd(fes_schedule)
    /\ fes_answer' = [t |-> fes_t, duration |-> FES_Duration, ok |-> FALSE]
    /\ fes_pc' = "hung"
    /\ UNCHANGED <<other_vars, val_vars, lp_vars, input_vars, ffd_vars, mtmc_vars, fes_schedule, fes_capacity,
                   fes_qubits, fes_base, fes_t, fes_result, bench_result>>

\* benchmarks lines 73-75: entry into find_earliest_start, on the same arguments
\* as the component's call when that has returned
Bench_Call ==
    /\ fes_pc \in {"idle", "returned"}
    /\ fes_t' = 0
    /\ fes_pc' = "benchmark"
    /\ UNCHANGED <<other_vars, val_vars, lp_vars, input_vars, ffd_vars, mtmc_vars, fes_schedule, fes_capacity,
                   fes_qubits, fes_base, fes_answer, fes_result, bench_result>>

\* benchmarks lines 77-80: can_run_at_time is false, t += step
Bench_Advance ==
    /\ fes_pc = "benchmark"
    /\ ~can_run_at_time(fes_schedule, fes_capacity, fes_qubits, fes_t, Bench_Duration)
    /\ fes_t < LastEnd(fes_schedule)
    /\ fes_answer' = [t |-> fes_t, duration |-> Bench_Duration, ok |-> FALSE]
    /\ fes_t' = fes_t + 1
    /\ UNCHANGED <<other_vars, val_vars, lp_vars, input_vars, ffd_vars, mtmc_vars, fes_schedule, fes_capacity,
                   fes_qubits, fes_base, fes_pc, fes_result, bench_result>>

\* benchmarks lines 78-79: can_run_at_time is true, return t
Bench_Return ==
    /\ fes_pc = "benchmark"
    /\ can_run_at_time(fes_schedule, fes_capacity, fes_qubits, fes_t, Bench_Duration)
    /\ fes_answer' = [t |-> fes_t, duration |-> Bench_Duration, ok |-> TRUE]
    /\ bench_result' = fes_t
    /\ fes_pc' = "done"
    /\ UNCHANGED <<other_vars, val_vars, lp_vars, input_vars, ffd_vars, mtmc_vars, fes_schedule, fes_capacity,
                   fes_qubits, fes_base, fes_t, fes_result>>

\* benchmarks lines 77-80: false past the last end time, and so for ever
Bench_Forever ==
    /\ fes_pc = "benchmark"
    /\ ~can_run_at_time(fes_schedule, fes_capacity, fes_qubits, fes_t, Bench_Duration)
    /\ fes_t >= LastEnd(fes_schedule)
    /\ fes_answer' = [t |-> fes_t, duration |-> Bench_Duration, ok |-> FALSE]
    /\ fes_pc' = "bench_hung"
    /\ UNCHANGED <<other_vars, val_vars, lp_vars, input_vars, ffd_vars, mtmc_vars, fes_schedule, fes_capacity,
                   fes_qubits, fes_base, fes_t, fes_result, bench_result>>

\* Entries of a machine schedule: whole-number intervals within the horizon
ScheduleEntries ==
    {e \in [qubits : 1..MaxEntryQubits, start : 0..MaxEnd, end : 0..MaxEnd] :
        e.start < e.end}

MachineSchedules == UNION {[1..n -> ScheduleEntries] : n \in 0..MaxEntries}

\* base_time_per_qubit: the default and a longer one
BaseTimes == {DefaultBaseTime, 2 * DefaultBaseTime}

FES_Init ==
    /\ FFD_NotInUse
    /\ Other_NotInUse
    /\ MTMC_NotInUse
    /\ LP_NotInUse
    /\ Val_NotInUse
    /\ fes_schedule \in MachineSchedules
    /\ fes_capacity \in 1..MaxCapacity
    /\ fes_qubits \in 0..MaxQubits
    /\ fes_base \in BaseTimes
    /\ fes_pc = "idle"
    /\ fes_t = 0
    /\ fes_answer = NoAnswer
    /\ fes_result = Inf
    /\ bench_result = Inf

FES_Next ==
    \/ FES_Call
    \/ FES_Advance
    \/ FES_Return
    \/ FES_Forever
    \/ Bench_Call
    \/ Bench_Advance
    \/ Bench_Return
    \/ Bench_Forever

FES_Spec == FES_Init /\ [][FES_Next]_vars

(***************************************************************************)
(* assert_schedule_validity of the test support: the check of a schedule   *)
(* against the machines' capacities, made twice on the same objects.       *)
(***************************************************************************)
MaxValEntries == 2

\* dict.get(key) on a sequence of [machine, capacity]
CapacityOf(ms, name) ==
    ms[CHOOSE k \in DOMAIN ms : ms[k].machine = name].capacity

\* conftest lines 307-317: the assertions on one entry
EntryPasses(entry, ms) ==
    /\ "job" \in DOMAIN entry
    /\ "machine" \in DOMAIN entry
    /\ "start" \in DOMAIN entry
    /\ "end" \in DOMAIN entry
    /\ "qubits" \in DOMAIN entry
    /\ \E k \in DOMAIN ms : ms[k].machine = entry.machine
    /\ entry.qubits <= CapacityOf(ms, entry.machine)
    /\ entry.start >= 0
    /\ entry.end >= entry.start

\* conftest lines 304-306: the list test holds, the for loop starts
Val_Call ==
    /\ val_pc = "idle"
    /\ val_i' = 1
    /\ val_verdict' = "none"
    /\ val_pc' = "entries"
    /\ UNCHANGED <<other_vars, input_vars, ffd_vars, mtmc_vars, fes_vars, lp_vars, val_schedule,
                   val_machines, val_call, val_first>>

\* Mutant of lines 306-317: an entry that passed is taken off the list
Val_EntryM ==
    /\ val_pc = "entries"
    /\ val_i <= Len(val_schedule)
    /\ EntryPasses(val_schedule[val_i], val_machines)
    /\ val_schedule' = Tail(val_schedule)
    /\ UNCHANGED <<other_vars, input_vars, ffd_vars, mtmc_vars, fes_vars, lp_vars, val_i,
                   val_machines, val_pc, val_call, val_verdict, val_first>>

\* lines 306-317: every assertion on the entry holds, on to the next entry
Val_Entry ==
    /\ val_pc = "entries"
    /\ val_i <= Len(val_schedule)
    /\ EntryPasses(val_schedule[val_i], val_machines)
    /\ val_i' = val_i + 1
    /\ UNCHANGED <<other_vars, input_vars, ffd_vars, mtmc_vars, fes_vars, lp_vars, val_schedule,
                   val_machines, val_pc, val_call, val_verdict, val_first>>

\* lines 306-317: an assertion fails, AssertionError
Val_Fail ==
    /\ val_pc = "entries"
    /\ val_i <= Len(val_schedule)
    /\ ~EntryPasses(val_schedule[val_i], val_machines)
    /\ val_verdict' = "invalid"
    /\ val_pc' = "raised"
    /\ UNCHANGED <<other_vars, input_vars, ffd_vars, mtmc_vars, fes_vars, lp_vars, val_schedule,
                   val_machines, val_call, val_i, val_first>>

\* line 317: the loop is over, the function returns
Val_Return ==
    /\ val_pc = "entries"
    /\ val_i > Len(val_schedule)
    /\ val_verdict' = "valid"
    /\ val_pc' = "returned"
    /\ UNCHANGED <<other_vars, input_vars, ffd_vars, mtmc_vars, fes_vars, lp_vars, val_schedule,
                   val_machines, val_call, val_i, val_first>>

\* The caller keeps the verdict and checks the same objects again.
Val_CallAgain ==
    /\ val_pc \in {"returned", "raised"}
    /\ val_call = 1
    /\ val_first' = val_verdict
    /\ val_call' = 2
    /\ val_pc' = "idle"
    /\ UNCHANGED <<other_vars, input_vars, ffd_vars, mtmc_vars, fes_vars, lp_vars, val_schedule,
                   val_machines, val_i, val_verdict>>

\* start and end of an entry: in order, with a negative start, with the end first
TimePairs == {[start |-> 0, end |-> 1], [start |-> 0 - 1, end |-> 0],
              [start |-> 1, end |-> 0]}

\* Entries as the schedulers write them, on a machine of the dictionary or on an
\* unknown one, and entries that lack the qubits key
ValEntries ==
    {[job |-> JobName(1), machine |-> m, qubits |-> q, start |-> p.start,
      end |-> p.end] : m \in {"A", "B", "Z"}, q \in 1..MaxEntryQubits, p \in TimePairs}
    \cup {[job |-> JobName(1), machine |-> m, start |-> 0, end |-> 1] :
            m \in {"A", "B", "Z"}}

\* The machines of the check: A with one qubit, B with as many as an entry may ask
ValMachines == <<[machine |-> "A", capacity |-> 1],
                 [machine |-> "B", capacity |-> MaxEntryQubits]>>

Val_Init ==
    /\ FFD_NotInUse
    /\ Other_NotInUse
    /\ MTMC_NotInUse
    /\ FES_NotInUse
    /\ LP_NotInUse
    /\ val_schedule \in UNION {[1..n -> ValEntries] : n \in 0..MaxValEntries}
    /\ val_machines = ValMachines
    /\ val_pc = "idle"
    /\ val_call = 1
    /\ val_i = 1
    /\ val_verdict = "none"
    /\ val_first = "none"

Val_Next ==
    \/ Val_Call
    \/ Val_Entry
    \/ Val_Fail
    \/ Val_Return
    \/ Val_CallAgain

Val_Spec == Val_Init /\ [][Val_Next]_vars

(***************************************************************************)
(* The exact scheduler (MILQ_extend): example_problem builds the problem,  *)
(* generate_schedule sets up and solves the program, extracts the jobs and *)
(* re-simulates them, example_problem writes the JSON document and         *)
(* _read_solution_file reads it back.  The solver is an external program:  *)
(* when it reports an optimum its values satisfy the constraints of the    *)
(* base formulation (_define_lp); the constraints that set_up_extended_lp  *)
(* adds restrict the assignments further and are not followed here, so the *)
(* assignments explored are a superset of the extended program's.  s_j and *)
(* c_j are continuous: their values are held in half units, so that        *)
(* non-integer values are among the candidates.                            *)
(***************************************************************************)
LP_MaxJobs == 2
\* timesteps: the program's horizon is list(range(timesteps))
LP_Timesteps == 3
\* bigM of the callers (main.py line 145)
BigM == 1000000
\* `50  # BIG!` of _generate_problem
BigSetup == 50
\* range(32) of _read_solution_file
ReaderTimesteps == 32

\* The caller's ids of the real jobs, the qubits a job may need, and the
\* accelerators
LP_JobIds == <<"a", "b", "c", "d">>
LP_Qubits == {1, 2}
LP_Machines == <<[machine |-> "A", capacity |-> 2], [machine |-> "B", capacity |-> 3]>>

LP_M == DOMAIN LP_Machines
LP_T == 0..(LP_Timesteps - 1)
HalfTimes == 0..(2 * (LP_Timesteps - 1))

\* lpSum over the machines / the timesteps of one job's z variables
Occupied(row, t) == SeqSum([k \in LP_M |-> row.z[k][t]])
OnMachine(row, k) == SeqSum([i \in 1..LP_Timesteps |-> row.z[k][i - 1]])

\* lines 170-198: the constraints on one real job's variables.  row.s and row.c
\* are in half units; big_m is BigM.
JobConstraints(row) ==
    /\ SeqSum([k \in LP_M |-> row.x[k]]) = 1                                \* (C3)
    /\ row.c - row.s + 2 = 2 * SeqSum([k \in LP_M |-> OnMachine(row, k)])   \* (C7)
    /\ \A k \in LP_M : OnMachine(row, k) <= row.x[k] * BigM                 \* (C8)
    /\ \A t \in LP_T :
           /\ 2 * (Occupied(row, t) * t) <= row.c                           \* (C9)
           /\ Occupied(row, t) <= 1                                         \* (C4)
           /\ row.s <= 2 * (Occupied(row, t) * t
                            + BigM * (1 - Occupied(row, t)))                \* (C10)

\* The assignments of one real job's variables that satisfy them
JobRows ==
    {ok : ok \in {row \in [x : [LP_M -> {0, 1}], z : [LP_M -> [LP_T -> {0, 1}]],
                           s : HalfTimes, c : HalfTimes] : JobConstraints(row)}}

\* Mutant of lines 199-207: the occupancy is summed without the jobs' qubits
CapacityConstraintM(rows, job_caps, machine_caps) ==
    \A t \in LP_T : \A k \in LP_M :
        SeqSum([j \in DOMAIN rows |-> rows[j].z[k][t]]) <= machine_caps[k].capacity

\* lines 199-207: (C11), for every timestep and machine
CapacityConstraint(rows, job_caps, machine_caps) ==
    \A t \in LP_T : \A k \in LP_M :
        SeqSum([j \in DOMAIN rows |-> rows[j].z[k][t] * job_caps[j].qubits])
            <= machine_caps[k].capacity

\* The values of the variables of a solved program.  c_j_0 is 0 by (C2);
\* makespan is the least value (C1) allows, which (OBJ) asks for.
ValuesOf(rows) ==
    [x |-> [j \in DOMAIN rows |-> rows[j].x],
     z |-> [j \in DOMAIN rows |-> rows[j].z],
     s |-> [j \in DOMAIN rows |-> rows[j].s],
     c |-> [j \in DOMAIN rows |-> rows[j].c],
     c0 |-> 0,
     makespan |-> Max({0} \cup {rows[j].c : j \in DOMAIN rows})]

\* The values a solver leaves when it has no solution: 0.0 for every variable
ZeroValues(n) ==
    [x |-> [j \in 1..n |-> [k \in LP_M |-> 0]],
     z |-> [j \in 1..n |-> [k \in LP_M |-> [t \in LP_T |-> 0]]],
     s |-> [j \in 1..n |-> 0],
     c |-> [j \in 1..n |-> 0],
     c0 |-> 0,
     makespan |-> 0]

\* lines 362-370, the random draw of each entry taken as 0
calculate_process_times(job_i, machine_k) ==
    IF job_i = 0 THEN 0 ELSE job_i + machine_k
calculate_setup_times(job_i, job_j, machine_k) ==
    IF job_j = 0 THEN 0 ELSE ((job_i + job_j) \div 2) + machine_k

\* `jobs` of the callers is ["0"] + the real jobs: row r is the synthetic job
\* for r = 1 and the real job r - 1 otherwise
RowQubits(jc, r) == IF r = 1 THEN 0 ELSE jc[r - 1].qubits

\* lines 374-397 of _generate_problem
processing_times(jc, ms) ==
    [r \in 1..(Len(jc) + 1) |->
        [k \in DOMAIN ms |->
            calculate_process_times(RowQubits(jc, r), ms[k].capacity)]]
setup_times(jc, ms) ==
    [job_j \in 1..(Len(jc) + 1) |->
        [job_i \in 1..(Len(jc) + 1) |->
            [k \in DOMAIN ms |->
                IF job_i = job_j \/ job_i = 1
                THEN BigSetup
                ELSE calculate_setup_times(RowQubits(jc, job_i),
                                           RowQubits(jc, job_j), ms[k].capacity)]]]

\* lines 136-137: the program's names of the jobs, "0" first, and the machines
job_names(n) == [r \in 1..(n + 1) |-> ToString(r - 1)]
machine_names(ms) == [k \in DOMAIN ms |-> ms[k].machine]

Has(seq, x) == \E i \in DOMAIN seq : seq[i] = x
PosIn(seq, x) == CHOOSE i \in DOMAIN seq : seq[i] = x

\* pulp.makeDict([rows, cols], array, 0)[r][c]: the headers are paired with the
\* array by position, and a key that is no header yields the default
makeDict2(rows, cols, array, r, c) ==
    IF Has(rows, r) /\ Has(cols, c) /\ PosIn(rows, r) \in DOMAIN array
    THEN array[PosIn(rows, r)][PosIn(cols, c)] ELSE 0
makeDict3(rows, mids, cols, array, r, m, c) ==
    IF Has(rows, r) /\ Has(mids, m) /\ Has(cols, c)
    THEN array[PosIn(rows, r)][PosIn(mids, m)][PosIn(cols, c)] ELSE 0

\* The names of the variables, as the tokens between the underscores
XName(j, machine) == <<"x", "ik", ToString(j), machine>>
ZName(j, machine, t) == <<"z", "ikt", ToString(j), machine, ToString(t)>>
SName(j) == <<"s", "j", ToString(j)>>
CName(j) == <<"c", "j", ToString(j)>>

\* problem.variables(): the variables of the base program and, by name only,
\* one variable of each family set_up_extended_lp adds
ProblemVariables(n, ms) ==
    {XName(j, ms[k].machine) : j \in 1..n, k \in DOMAIN ms}
    \cup {ZName(j, ms[k].machine, t) : j \in 1..n, k \in DOMAIN ms, t \in LP_T}
    \cup {SName(j) : j \in 1..n} \cup {CName(j) : j \in 0..n}
    \cup {<<"makespan">>,
          <<"y", "ijk", "0", "1", ms[1].machine>>,
          <<"a", "ij", "1", "1">>,
          <<"b", "ij", "1", "1">>,
          <<"d", "ijk", "1", "1", ms[1].machine>>,
          <<"e", "ijlk", "1", "1", "1", ms[1].machine>>}

\* var.varValue of a base variable; s_j and c_j in half units
IndexOf(token, n) == CHOOSE j \in 0..n : ToString(j) = token
varValue(values, name, n, ms) ==
    CASE name[1] = "x" -> values.x[IndexOf(name[3], n)][PosIn(machine_names(ms), name[4])]
      [] name[1] = "z" -> values.z[IndexOf(name[3], n)][PosIn(machine_names(ms), name[4])]
                                  [IndexOf(name[5], LP_Timesteps)]
      [] name[1] = "s" -> values.s[IndexOf(name[3], n)]
      [] name[1] = "c" -> IF name[3] = "0" THEN values.c0 ELSE values.c[IndexOf(name[3], n)]
      [] OTHER -> values.makespan

\* lines 622-625: name.split("_")[2:], first two
first_name_func(name) == <<name[3], name[4]>>

\* lines 627-660: one JobResultInfo per real job; the machine of the last x
\* variable of the job whose value is positive ("" when there is none), the
\* start and completion of its s and c variables (half units)
extract_gurobi_results(values, jc, ms) ==
    [j \in DOMAIN jc |->
        LET hits == {k \in DOMAIN ms :
                         varValue(values, XName(j, ms[k].machine), Len(jc), ms) > 0}
        IN  [name |-> ToString(j),
             machine |-> IF hits = {} THEN ""
                         ELSE first_name_func(XName(j, ms[Max(hits)].machine))[2],
             start_time |-> varValue(values, SName(j), Len(jc), ms),
             completion_time |-> varValue(values, CName(j), Len(jc), ms),
             capacity |-> jc[j].qubits]]

\* The synthetic job JobResultInfo("0", machine, 0.0, 0.0, 0)
DummyJob(machine) ==
    [name |-> "0", machine |-> machine, start_time |-> 0, completion_time |-> 0,
     capacity |-> 0]

\* lines 346-360, over the copy of the machine's jobs: `on` is the positions of
\* the machine's jobs in the copy.  max() yields the first of the greatest.
find_last_completed(i, copy, on, machine) ==
    LET original_starttime == copy[i].start_time
        completed_before == {j \in on : copy[j].completion_time <= original_starttime}
        best == Max({copy[j].completion_time : j \in completed_before})
    IN  IF completed_before = {} THEN DummyJob(machine)
        ELSE copy[Min({j \in completed_before : copy[j].completion_time = best})]

\* sorted(assigned_jobs, key=start_time): stable, so ties keep the list's order
RECURSIVE SortedByStart(_, _)
SortedByStart(on, jobs) ==
    IF on = {} THEN <<>>
    ELSE LET first == Min({j \in on : \A o \in on :
                              jobs[j].start_time <= jobs[o].start_time})
         IN  <<first>> \o SortedByStart(on \ {first}, jobs)

\* lines 298-302: p_times[name][machine] of _calc_makespan, the headers
\* job_names[1:] paired with the whole process_times
SimulationProcessTime(jc, ms, name, machine) ==
    makeDict2(SubSeq(job_names(Len(jc)), 2, Len(jc) + 1), machine_names(ms),
              processing_times(jc, ms), name, machine)

\* lines 450-454: p_times[name][machine] of set_up_extended_lp, the headers
\* jobs[1:] paired with process_times[1:]
ExtendedProcessTime(jc, ms, name, machine) ==
    makeDict2(SubSeq(job_names(Len(jc)), 2, Len(jc) + 1), machine_names(ms),
              Tail(processing_times(jc, ms)), name, machine)

\* lines 323-341: one turn of the loop over a machine's sorted jobs
Resimulated(i, live, copy, on, jc, ms) ==
    LET job == live[i]
        n == Len(jc)
        found == find_last_completed(i, copy, on, job.machine)
        last_completed == IF job.start_time = 0 THEN DummyJob(job.machine) ELSE found
        same == {j \in on : live[j].name = last_completed.name}
        start == IF same = {} THEN 0 ELSE live[Min(same)].completion_time
        p == SimulationProcessTime(jc, ms, job.name, job.machine)
        s == makeDict3(job_names(n), job_names(n), machine_names(ms),
                       setup_times(jc, ms), last_completed.name, job.name, job.machine)
    IN  [job EXCEPT !.start_time = start,
                    !.completion_time = last_completed.completion_time + 2 * p + 2 * s]

RECURSIVE MachineLoop(_, _, _, _, _, _)
MachineLoop(order, live, copy, on, jc, ms) ==
    IF order = <<>> THEN live
    ELSE MachineLoop(Tail(order),
                     [live EXCEPT ![Head(order)] =
                         Resimulated(Head(order), live, copy, on, jc, ms)],
                     copy, on, jc, ms)

\* lines 304-344: every machine's jobs in turn; the jobs after the loop
RECURSIVE calc_makespan_jobs(_, _, _, _)
calc_makespan_jobs(machines_left, live, jc, ms) ==
    IF machines_left = {} THEN live
    ELSE LET machine == CHOOSE m \in machines_left : TRUE
             on == {j \in DOMAIN live : live[j].machine = machine}
         IN  calc_makespan_jobs(machines_left \ {machine},
                 MachineLoop(SortedByStart(on, live), live, live, on, jc, ms), jc, ms)

AssignedMachines(jobs) == {jobs[j].machine : j \in DOMAIN jobs}

\* startswith of a name on its tokens: the prefix ends in "_" when `closed`
HasPrefix(name, prefix, closed) ==
    /\ Len(name) >= Len(prefix)
    /\ SubSeq(name, 1, Len(prefix)) = prefix
    /\ closed => Len(name) > Len(prefix)

\* line 692: var.name.startswith(("c_j", "s_j", "x_ik_", "z_ikt_"))
IsWritten(name) ==
    \/ HasPrefix(name, <<"c", "j">>, FALSE)
    \/ HasPrefix(name, <<"s", "j">>, FALSE)
    \/ HasPrefix(name, <<"x", "ik">>, TRUE)
    \/ HasPrefix(name, <<"z", "ikt">>, TRUE)

\* lines 677-697: the document json.dump writes.  The mappings job -> qubits and
\* machine -> capacity are kept as the sequences of their items.
SolutionDocument(values, jc, ms) ==
    [params |->
        [jobs |-> [j \in DOMAIN jc |-> jc[j].job],
         machines |-> machine_names(ms),
         job_capcities |-> jc,
         machine_capacities |-> ms,
         timesteps |-> LP_Timesteps,
         processing_times |-> processing_times(jc, ms),
         setup_times |-> setup_times(jc, ms)],
     variables |->
        [name \in {v \in ProblemVariables(Len(jc), ms) : IsWritten(v)} |->
            varValue(values, name, Len(jc), ms)]]

\* The keys of a mapping kept as the sequence of its items
Keys(items) == {items[i].job : i \in DOMAIN items}

\* lines 374-397 of _generate_problem: job_capacities[job] for every job of the
\* caller's list (job_i and job_j run over the same list) is a KeyError when the
\* mapping has no such key, and so is line 399 when it has no key "0"
GenerateProblemRaises(args) ==
    \/ \E i \in DOMAIN args.jobs : args.jobs[i] \notin Keys(args.job_capacities)
    \/ "0" \notin Keys(args.job_capacities)

\* line 399: del job_capacities["0"], on the caller's own mapping
DelZero(items) ==
    LET NotZero(item) == item.job # "0"
    IN SelectSeq(items, NotZero)

\* The caller's objects once _generate_problem has returned
AfterGenerateProblem(args) ==
    [args EXCEPT !.job_capacities = DelZero(@)]

\* set_up_extended_lp's own default: big_m: int = 1000
ExtendedBigM == 1000

\* lines 235-248: set_up_base_lp is handed problem.big_m; set_up_extended_lp is
\* called with lp_instance, process_times and setup_times only, so its big_m is
\* its default
BuiltBigM(big_m) == [base |-> big_m, extended |-> ExtendedBigM]

\* example_problem once the solver has left `values` behind with `status`:
\* _generate_schedule_info extracts the jobs and re-simulates them (lines
\* 251-256) whatever the status, the makespan being the greatest of the
\* recomputed completion times (line 344), and example_problem writes the
\* document (lines 674-697)
ExampleProblem(status, values) ==
    /\ lp_status' = status
    /\ lp_values' = <<values>>
    /\ lp_extracted' = extract_gurobi_results(values, lp_job_capacities, lp_accelerators)
    /\ lp_jobs' = calc_makespan_jobs(AssignedMachines(lp_extracted'), lp_extracted',
                                     lp_job_capacities, lp_accelerators)
    /\ lp_makespan' = Max({lp_jobs'[j].completion_time : j \in DOMAIN lp_jobs'})
    /\ lp_doc' = <<SolutionDocument(values, lp_job_capacities, lp_accelerators)>>
    /\ lp_pc' = "written"
    /\ lp_args' = AfterGenerateProblem(lp_args)
    /\ lp_built' = BuiltBigM(lp_big_m)
    /\ UNCHANGED <<other_vars, input_vars, ffd_vars, mtmc_vars, fes_vars, val_vars,
                   lp_job_capacities, lp_accelerators, rows_list, lp_call, lp_big_m>>

\* lines 588-604: the solver reports an optimum; its values satisfy the constraints
LP_SolveOptimal ==
    /\ lp_pc = "idle"
    /\ ~GenerateProblemRaises(lp_args)
    /\ \E rows \in [DOMAIN lp_job_capacities -> JobRows] :
           /\ CapacityConstraint(rows, lp_job_capacities, lp_accelerators)
           /\ ExampleProblem("Optimal", ValuesOf(rows))

\* lines 588-604: the solver reports that the program is infeasible, or stops
\* without a solution, and leaves zeros in the variables; solve_lp returns all
\* the same
LP_SolveFails ==
    /\ lp_pc = "idle"
    /\ ~GenerateProblemRaises(lp_args)
    /\ \E status \in {"Infeasible", "Not Solved"} :
           ExampleProblem(status, ZeroValues(Len(lp_job_capacities)))

\* lines 588-604 and 649: the solver reports no solution and leaves the variables
\* without a value; `var.varValue > 0.0` in the extraction is a TypeError
LP_SolveFailsNoValues ==
    /\ lp_pc = "idle"
    /\ ~GenerateProblemRaises(lp_args)
    /\ lp_status' \in {"Infeasible", "Not Solved"}
    /\ lp_values' = NoValues
    /\ lp_pc' = "raised"
    /\ lp_args' = AfterGenerateProblem(lp_args)
    /\ lp_built' = BuiltBigM(lp_big_m)
    /\ UNCHANGED <<other_vars, input_vars, ffd_vars, mtmc_vars, fes_vars, val_vars,
                   lp_job_capacities, lp_accelerators, lp_extracted, lp_jobs,
                   lp_makespan, lp_doc, rows_list, lp_call, lp_big_m>>

\* lines 597-603: no solver is installed, solve() raises the library's error
LP_NoSolver ==
    /\ lp_pc = "idle"
    /\ ~GenerateProblemRaises(lp_args)
    /\ lp_status' = "No Solver"
    /\ lp_pc' = "raised"
    /\ lp_args' = AfterGenerateProblem(lp_args)
    /\ lp_built' = BuiltBigM(lp_big_m)
    /\ UNCHANGED <<other_vars, input_vars, ffd_vars, mtmc_vars, fes_vars, val_vars,
                   lp_job_capacities, lp_accelerators, lp_values, lp_extracted,
                   lp_jobs, lp_makespan, lp_doc, rows_list, lp_call, lp_big_m>>

\* lines 374-399: _generate_problem raises KeyError before any program is built
LP_KeyError ==
    /\ lp_pc = "idle"
    /\ GenerateProblemRaises(lp_args)
    /\ lp_status' = "KeyError"
    /\ lp_pc' = "raised"
    /\ UNCHANGED <<other_vars, input_vars, ffd_vars, mtmc_vars, fes_vars, val_vars,
                   lp_job_capacities, lp_accelerators, lp_values, lp_extracted,
                   lp_jobs, lp_makespan, lp_doc, rows_list, lp_args, lp_call,
                   lp_big_m, lp_built>>

\* The caller calls example_problem again with the very objects it passed to the
\* first call; what the first call computed was local to it
LP_CallAgain ==
    /\ lp_pc \in {"written", "read", "raised"}
    /\ lp_call = 1
    /\ lp_call' = 2
    /\ lp_pc' = "idle"
    /\ lp_status' = "Not Solved"
    /\ lp_values' = NoValues
    /\ lp_extracted' = <<>>
    /\ lp_jobs' = <<>>
    /\ lp_makespan' = 0
    /\ lp_doc' = NoDoc
    /\ rows_list' = <<>>
    /\ lp_built' = NotBuilt
    /\ UNCHANGED <<other_vars, input_vars, ffd_vars, mtmc_vars, fes_vars, val_vars,
                   lp_job_capacities, lp_accelerators, lp_args, lp_big_m>>

\* dict.get(key, default) on a record, and on a mapping kept as its items
Get(rec, key, default) == IF key \in DOMAIN rec THEN rec[key] ELSE default
ItemGet(items, keyfield, key, valfield) ==
    IF \E i \in DOMAIN items : items[i][keyfield] = key
    THEN items[CHOOSE i \in DOMAIN items : items[i][keyfield] = key][valfield]
    ELSE 0

\* variables.get(key, 0) >= 0.5
AtLeastHalf(variables, key) == 2 * Get(variables, key, 0) >= 1

\* lines 28-72: the row of one job, or nothing when the job has no machine or no
\* occupied timestep
ReadRow(data, job_idx) ==
    LET variables == data.variables
        machine_list == Get(data.params, "machines", <<>>)
        hits == {k \in DOMAIN machine_list : AtLeastHalf(variables, XName(job_idx, machine_list[k]))}
        assigned_machine == machine_list[Min(hits)]
        active_timesteps == {t \in 0..(ReaderTimesteps - 1) :
                                 AtLeastHalf(variables, ZName(job_idx, assigned_machine, t))}
    IN  IF hits = {} \/ active_timesteps = {} THEN <<>>
        ELSE <<[job |-> Get(data.params, "jobs", <<>>)[job_idx],
                qubits |-> ItemGet(Get(data.params, "job_capcities", <<>>), "job",
                                   Get(data.params, "jobs", <<>>)[job_idx], "qubits"),
                machine |-> assigned_machine,
                capacity |-> ItemGet(Get(data.params, "machine_capacities", <<>>),
                                     "machine", assigned_machine, "capacity"),
                start |-> Min(active_timesteps),
                end |-> Max(active_timesteps) + 1,
                duration |-> Max(active_timesteps) + 1 - Min(active_timesteps)]>>

\* lines 12-112: the rows of the jobs in the order of params.jobs
RECURSIVE read_solution_file(_, _)
read_solution_file(data, job_idx) ==
    IF job_idx > Len(Get(data.params, "jobs", <<>>)) THEN <<>>
    ELSE ReadRow(data, job_idx) \o read_solution_file(data, job_idx + 1)

\* _read_solution_file on the document example_problem wrote
LP_Read ==
    /\ lp_pc = "written"
    /\ rows_list' = read_solution_file(lp_doc[1], 1)
    /\ lp_pc' = "read"
    /\ UNCHANGED <<other_vars, input_vars, ffd_vars, mtmc_vars, fes_vars, val_vars,
                   lp_job_capacities, lp_accelerators, lp_status, lp_values,
                   lp_extracted, lp_jobs, lp_makespan, lp_doc, lp_args, lp_call,
                   lp_big_m, lp_built>>

\* main.py lines 142-147: jobs = ["0"] + the real jobs, job_capacities = {"0": 0}
\* updated with the real jobs' qubits, and the machines' mapping
CallerArgs(jc, ms) ==
    [jobs |-> <<"0">> \o [j \in DOMAIN jc |-> jc[j].job],
     job_capacities |-> <<[job |-> "0", qubits |-> 0]>> \o jc,
     machine_capacities |-> ms]

\* The problems example_problem is called with
LP_Problems ==
    UNION {[1..n -> LP_Qubits] : n \in 1..LP_MaxJobs}

LP_Init ==
    /\ FFD_NotInUse
    /\ Other_NotInUse
    /\ MTMC_NotInUse
    /\ FES_NotInUse
    /\ Val_NotInUse
    /\ \E q \in LP_Problems :
           lp_job_capacities = [j \in DOMAIN q |-> [job |-> LP_JobIds[j], qubits |-> q[j]]]
    /\ lp_accelerators = LP_Machines
    /\ lp_pc = "idle"
    /\ lp_status = "Not Solved"
    /\ lp_values = NoValues
    /\ lp_extracted = <<>>
    /\ lp_jobs = <<>>
    /\ lp_makespan = 0
    /\ lp_doc = NoDoc
    /\ rows_list = <<>>
    /\ lp_args = CallerArgs(lp_job_capacities, lp_accelerators)
    /\ lp_call = 1
    /\ lp_big_m = BigM
    /\ lp_built = NotBuilt

LP_Next ==
    \/ LP_SolveOptimal
    \/ LP_SolveFails
    \/ LP_SolveFailsNoValues
    \/ LP_NoSolver
    \/ LP_KeyError
    \/ LP_Read
    \/ LP_CallAgain

LP_Spec == LP_Init /\ [][LP_Next]_vars

\* The values of big_m a caller configures: bigM of main.py, and the value that
\* happens to be set_up_extended_lp's default.  Both are far above the horizon,
\* so the assignments that satisfy (C8) and (C10) are those of JobRows.
ConfiguredBigM == {BigM, ExtendedBigM}

\* example_problem called with either big_m
LP_BigMInit ==
    /\ FFD_NotInUse
    /\ Other_NotInUse
    /\ MTMC_NotInUse
    /\ FES_NotInUse
    /\ Val_NotInUse
    /\ \E q \in LP_Problems :
           lp_job_capacities = [j \in DOMAIN q |-> [job |-> LP_JobIds[j], qubits |-> q[j]]]
    /\ lp_accelerators = LP_Machines
    /\ lp_pc = "idle"
    /\ lp_status = "Not Solved"
    /\ lp_values = NoValues
    /\ lp_extracted = <<>>
    /\ lp_jobs = <<>>
    /\ lp_makespan = 0
    /\ lp_doc = NoDoc
    /\ rows_list = <<>>
    /\ lp_args = CallerArgs(lp_job_capacities, lp_accelerators)
    /\ lp_call = 1
    /\ lp_big_m \in ConfiguredBigM
    /\ lp_built = NotBuilt

LP_BigMSpec == LP_BigMInit /\ [][LP_Next]_vars

(***************************************************************************)
(* _extract_gurobi_results on the names of the variables.  pulp names the   *)
(* variable of job j and machine m "x_ik_<j>_<m>"; a name is kept as the    *)
(* pieces name.split("_") gives, a machine id as the pieces between its     *)
(* underscores.                                                            *)
(***************************************************************************)
MaxNameJobs == 2
MaxNameMachines == 2

\* Machine ids: backend names such as "fake_belem" (main.py lines 57-58)
NameIds == {<<"A">>, <<"B">>, <<"fake", "belem">>, <<"fake", "lima">>}

\* line 159: the name of x_ik[job][machine], split at "_"
XVarName(j, id) == <<"x", "ik", ToString(j)>> \o id
\* lines 162-163: s_j[job] and c_j[job]
SVarName(j) == <<"s", "j", ToString(j)>>
CVarName(j) == <<"c", "j", ToString(j)>>

\* lines 652 and 655: "-".join(var.name.split("_")[2:]), kept as the joined pieces
DashJoined(name) == SubSeq(name, 3, Len(name))

\* lines 648-657 for job j: the key and the machine the x variable of value 1
\* gives (line 650-651), the keys the s and c variables give
ExtractedNames(j, id) ==
    [job |-> first_name_func(XVarName(j, id))[1],
     machine |-> first_name_func(XVarName(j, id))[2],
     s_key |-> DashJoined(SVarName(j)),
     c_key |-> DashJoined(CVarName(j))]

\* lines 627-660
Names_Extract ==
    /\ nm_pc = "solved"
    /\ nm_extracted' = [j \in DOMAIN nm_x |-> ExtractedNames(j, nm_machines[nm_x[j]])]
    /\ nm_pc' = "extracted"
    /\ UNCHANGED <<input_vars, ffd_vars, mtmc_vars, fes_vars, lp_vars, val_vars,
                   upd_vars, nm_machines, nm_x>>

\* The machine lists of a caller: distinct ids
NameMachineLists ==
    UNION {{ms \in [1..n -> NameIds] : \A a, b \in 1..n : ms[a] = ms[b] => a = b} :
              n \in 1..MaxNameMachines}

Names_Init ==
    /\ FFD_NotInUse
    /\ MTMC_NotInUse
    /\ FES_NotInUse
    /\ LP_NotInUse
    /\ Val_NotInUse
    /\ Upd_NotInUse
    /\ nm_machines \in NameMachineLists
    /\ nm_x \in UNION {[1..n -> DOMAIN nm_machines] : n \in 1..MaxNameJobs}
    /\ nm_pc = "solved"
    /\ nm_extracted = <<>>

Names_Next == Names_Extract

Names_Spec == Names_Init /\ [][Names_Next]_vars

(***************************************************************************)
(* JobSchedulerUpdater.update_scheduler_jobs (updateToDict.py).  A job of   *)
(* job_data is [job, qubits]; scheduler_job maps a job name to the qubits   *)
(* of its JobInfo; errors is kept as the set of its keys.                   *)
(***************************************************************************)
MaxUpdJobs == 2
MaxUpdQubits == 2

UpdNames == {"1", "2", "3"}

UpdJobs == [job : UpdNames, qubits : 0..MaxUpdQubits]

\* validate_job_data and validate_scheduler_jobs (lines 64-141) raise
ValidationRaises(job_data, scheduler_job) ==
    \/ job_data = <<>>
    \/ \E k \in DOMAIN job_data : job_data[k].qubits <= 0
    \/ DOMAIN scheduler_job = {}

\* lines 185-191
Upd_Validate ==
    /\ upd_pc = "idle"
    /\ upd_pc' = IF ValidationRaises(upd_job_data, upd_scheduler_job)
                     THEN "raised" ELSE "loop"
    /\ upd_result' = NoResult
    /\ upd_i' = 1
    /\ UNCHANGED <<input_vars, ffd_vars, mtmc_vars, fes_vars, lp_vars, val_vars,
                   nm_vars, upd_job_data, upd_scheduler_job, upd_strict_mode>>

\* lines 207-216: the job is in scheduler_job
Upd_Update ==
    /\ upd_pc = "loop"
    /\ upd_i <= Len(upd_job_data)
    /\ upd_job_data[upd_i].job \in DOMAIN upd_scheduler_job
    /\ upd_scheduler_job' = [upd_scheduler_job EXCEPT
                                ![upd_job_data[upd_i].job] = upd_job_data[upd_i].qubits]
    /\ upd_result' = [upd_result EXCEPT
                         !.updated_jobs = @ \cup {upd_job_data[upd_i].job}]
    /\ upd_i' = upd_i + 1
    /\ UNCHANGED <<input_vars, ffd_vars, mtmc_vars, fes_vars, lp_vars, val_vars,
                   nm_vars, upd_job_data, upd_strict_mode, upd_pc>>

\* lines 198-204: the job is missing and strict_mode is off
Upd_Skip ==
    /\ upd_pc = "loop"
    /\ upd_i <= Len(upd_job_data)
    /\ upd_job_data[upd_i].job \notin DOMAIN upd_scheduler_job
    /\ ~upd_strict_mode
    /\ upd_result' = [upd_result EXCEPT
                         !.skipped_jobs = @ \cup {upd_job_data[upd_i].job}]
    /\ upd_i' = upd_i + 1
    /\ UNCHANGED <<input_vars, ffd_vars, mtmc_vars, fes_vars, lp_vars, val_vars,
                   nm_vars, upd_job_data, upd_scheduler_job, upd_strict_mode, upd_pc>>

\* lines 198-200 and 218-221: the job is missing and strict_mode is on; the
\* ValueError is raised inside the try and caught by except Exception
Upd_RecordError ==
    /\ upd_pc = "loop"
    /\ upd_i <= Len(upd_job_data)
    /\ upd_job_data[upd_i].job \notin DOMAIN upd_scheduler_job
    /\ upd_strict_mode
    /\ upd_result' = [upd_result EXCEPT
                         !.errors = @ \cup {upd_job_data[upd_i].job}]
    /\ upd_i' = upd_i + 1
    /\ UNCHANGED <<input_vars, ffd_vars, mtmc_vars, fes_vars, lp_vars, val_vars,
                   nm_vars, upd_job_data, upd_scheduler_job, upd_strict_mode, upd_pc>>

\* lines 223-232
Upd_Return ==
    /\ upd_pc = "loop"
    /\ upd_i > Len(upd_job_data)
    /\ upd_pc' = "returned"
    /\ UNCHANGED <<input_vars, ffd_vars, mtmc_vars, fes_vars, lp_vars, val_vars,
                   nm_vars, upd_job_data, upd_scheduler_job, upd_strict_mode, upd_i,
                   upd_result>>

Upd_Init ==
    /\ FFD_NotInUse
    /\ MTMC_NotInUse
    /\ FES_NotInUse
    /\ LP_NotInUse
    /\ Val_NotInUse
    /\ Names_NotInUse
    /\ upd_job_data \in UNION {[1..n -> UpdJobs] : n \in 0..MaxUpdJobs}
    /\ upd_scheduler_job \in UNION {[S -> 1..MaxUpdQubits] : S \in SUBSET UpdNames}
    /\ upd_strict_mode \in BOOLEAN
    /\ upd_pc = "idle"
    /\ upd_i = 1
    /\ upd_result = NoResult

Upd_Next ==
    \/ Upd_Validate
    \/ Upd_Update
    \/ Upd_Skip
    \/ Upd_RecordError
    \/ Upd_Return

Upd_Spec == Upd_Init /\ [][Upd_Next]_vars

(***************************************************************************)
(* Properties.                                                             *)
(***************************************************************************)
\* Summed qubits of the entries on machine `name` whose [start, end) contains t
UsedAt(entries, name, t) ==
    SeqSum([k \in DOMAIN entries |->
              IF entries[k].machine = name /\ entries[k].start <= t
                 /\ t < entries[k].end
              THEN entries[k].qubits ELSE 0])

\* The capacity invariant of one machine.  Starts and ends are whole numbers, so
\* the entries containing a real t are those containing its integer part.
CapacityOK(entries, name, capacity) ==
    \A t \in 0..LastEnd(entries) : UsedAt(entries, name, t) <= capacity

\* Two entries of a schedule on one machine whose intervals intersect
SharesMachine(entries) ==
    \E i, j \in DOMAIN entries :
        /\ i # j
        /\ entries[i].machine = entries[j].machine
        /\ entries[i].start < entries[j].end
        /\ entries[j].start < entries[i].end

Waited(entries) == \E i \in DOMAIN entries : entries[i].start > 0

FFD_Ended == pc \in {"returned", "raised", "hung"}

\* C1: at every point of an FFD call each machine's local schedule keeps the
\* summed qubits of the entries running at any time t within the machine's
\* capacity, and so does the returned schedule for every machine.
C1_FFD_Capacity ==
    /\ pc # "unused" =>
         \A k \in DOMAIN machine_capacities :
             CapacityOK(machines[machine_capacities[k].machine],
                        machine_capacities[k].machine,
                        machine_capacities[k].capacity)
    /\ pc = "returned" =>
         \A k \in DOMAIN machine_capacities :
             CapacityOK(schedule, machine_capacities[k].machine,
                        machine_capacities[k].capacity)

C1_Witness ==
    /\ pc = "returned"
    /\ SharesMachine(schedule)
    /\ Waited(schedule)

\* C2: the schedule MTMC returns keeps, for every chip and every time t, the summed
\* qubits of the entries running at t within the chip's capacity, whatever the
\* order in which the workers ran.
C2_MTMC_Capacity ==
    mpc = "returned" =>
        \A i \in DOMAIN chiplist :
            CapacityOK(result_json, chiplist[i].name, chiplist[i].capacity)

C2_Witness ==
    /\ mpc = "returned"
    /\ SharesMachine(result_json)
    /\ Waited(result_json)

\* Machines as the interface asks for them: at least one, each with a capacity of
\* at least 1 and a non-empty name
FFD_MachinesValid ==
    /\ machine_capacities # <<>>
    /\ \A k \in DOMAIN machine_capacities :
           machine_capacities[k].capacity >= 1 /\ machine_capacities[k].machine # ""

\* Some job needs more qubits than any machine has
FFD_Oversized ==
    /\ FFD_MachinesValid
    /\ \E j \in DOMAIN job_capacities : \A k \in DOMAIN machine_capacities :
           job_capacities[j].qubits > machine_capacities[k].capacity

\* C3: an FFD call with a job larger than every machine ends with an error, never
\* in a probe loop that does not return.
C3_FFD_ResourceExceeded == (FFD_Oversized /\ FFD_Ended) => pc = "raised"

MTMC_Oversized ==
    /\ chiplist # <<>>
    /\ \A i \in DOMAIN chiplist : chiplist[i].capacity >= 1
    /\ \E j \in DOMAIN tasks : \A i \in DOMAIN chiplist :
           tasks[j].qubits > chiplist[i].capacity

\* C4: an MTMC call with a task larger than every chip fails before the tick
\* loop starts: no tick is ever begun, and the call does not return a schedule.
C4_MTMC_FailFast ==
    MTMC_Oversized => (mpc \in {"idle", "loop", "raised"} /\ global_time = 0)

\* Every job has a positive demand that some machine's capacity covers
FFD_EveryJobFits ==
    /\ FFD_MachinesValid
    /\ \A j \in DOMAIN job_capacities :
           /\ job_capacities[j].qubits > 0
           /\ \E k \in DOMAIN machine_capacities :
                  job_capacities[j].qubits <= machine_capacities[k].capacity

\* C5: when every job fits on at least one machine the FFD call returns a
\* schedule, also when another machine is too small for some job.
C5_FFD_Terminates == (FFD_EveryJobFits /\ FFD_Ended) => pc = "returned"

ExampleSchedule ==
    <<Entry(<<2>>, 8, "A", 10, 0, 8), Entry(<<1>>, 5, "B", 7, 0, 5),
      Entry(<<3>>, 3, "B", 7, 5, 3)>>

\* C6: on the worked example FFD returns job 2 on A over [0,8], job 1 on B over
\* [0,5] and job 3 on B over [5,8], in this order, with makespan 8.
C6_FFD_Example ==
    (job_capacities = ExampleJobs /\ machine_capacities = ExampleMachines
     /\ base_time_per_qubit = 1 /\ FFD_Ended)
    => (pc = "returned" /\ schedule = ExampleSchedule /\ LastEnd(schedule) = 8)

\* Every task needs at least one qubit and at most the greatest chip capacity
MTMC_ValidInput ==
    \A j \in DOMAIN tasks :
        /\ tasks[j].qubits >= 1
        /\ \E i \in DOMAIN chiplist : tasks[j].qubits <= chiplist[i].capacity

\* How far a call has got: ticks first, then the tick's phase and the number of
\* workers that have run.
MTMC_Progress ==
    (Len(tasks) + 3) * global_time
    + (CASE mpc = "idle" -> 0 - 1
         [] mpc = "loop" -> 0
         [] mpc = "pool" -> 1 + (Len(tasklist) - Cardinality(waiting))
         [] OTHER -> Len(tasks) + 2)

\* The tick limit is reached with a task still pending or running: the one
\* position of a call that has not returned from which the model takes no step.
MTMC_OutOfTicks == mpc = "loop" /\ LoopCondition /\ global_time >= TickLimit

\* C7: for such an input, under every order of the workers, the MTMC call
\* returns: every step moves the call strictly forward, so no run goes round in a
\* cycle, and the call is never left at the tick limit with a task pending or
\* running.
C7_MTMC_Terminates ==
    /\ [](MTMC_ValidInput => ~MTMC_OutOfTicks)
    /\ [][MTMC_Progress' > MTMC_Progress]_vars

\* C7 as an eventuality, for the specification with fairness
C7_MTMC_EventuallyReturns == (mpc = "idle" /\ MTMC_ValidInput) ~> (mpc = "returned")

C7_Witness ==
    /\ MTMC_ValidInput
    /\ mpc = "returned"
    /\ Len(result_json) >= 2
    /\ Waited(result_json)

Occurrences(s, Is(_)) == Cardinality({k \in DOMAIN s : Is(s[k])})

FFD_AllPositive == \A j \in DOMAIN job_capacities : job_capacities[j].qubits > 0

\* C8: a schedule FFD returns for positive demands has every input job id exactly
\* once and no other id: as many entries as input jobs.
C8_FFD_Coverage ==
    (pc = "returned" /\ FFD_AllPositive) =>
        /\ Len(schedule) = Len(job_capacities)
        /\ \A j \in DOMAIN job_capacities :
               LET IsJob(e) == e.job = job_capacities[j].job
               IN Occurrences(schedule, IsJob) = 1

C8_Witness ==
    /\ pc = "returned"
    /\ FFD_AllPositive
    /\ Len(job_capacities) >= 2
    /\ Waited(schedule)

\* Where a task is during an MTMC call.  Inside a tick's pass the pending tasks
\* are the ones handed to the pool (not yet run, or put in no_execute) and the
\* record has the pass's allocated list ahead of line 32.
InPending(name) ==
    LET Is(t) == t.name = name
    IN Occurrences(task_remaining, Is)
       + (IF mpc = "pool"
          THEN Cardinality({k \in waiting : tasklist[k].name = name})
               + Occurrences(no_execute, Is)
          ELSE 0)

InRunning(name) ==
    LET Is(t) == t.name = name
    IN SeqSum([i \in DOMAIN chiplist |->
                 Occurrences(chip_status[chiplist[i].name].running_tasks, Is)])

InRecord(name) ==
    LET Is(t) == t.name = name
    IN Occurrences(results_success, Is)
       + (IF mpc = "pool" THEN Occurrences(allocated, Is) ELSE 0)

MTMC_Started == mpc \in {"loop", "pool", "returned"}

\* C9 as stated: between the concurrent passes of the ticks every input task is in
\* exactly one of the pending list, a chip's running set and the allocated
\* record, and the output has it once.
C9_MTMC_ExactlyOnePlace ==
    /\ mpc \in {"loop", "returned"} =>
         \A j \in DOMAIN tasks :
             InPending(tasks[j].name) + InRunning(tasks[j].name)
                 + InRecord(tasks[j].name) = 1
    /\ mpc = "returned" =>
         \A j \in DOMAIN tasks :
             LET IsJob(e) == e.job = tasks[j].name
             IN Occurrences(result_json, IsJob) = 1

\* C9 amended: every input task is in exactly one of the pending list and the
\* allocated record; a task in a chip's running set is in one running set only
\* and is in the record as well (it is recorded when allocated, not when it
\* completes); the output has every input task exactly once.
C9_MTMC_NoTaskLostOrDuplicated ==
    /\ MTMC_Started =>
         \A j \in DOMAIN tasks :
             /\ InPending(tasks[j].name) + InRecord(tasks[j].name) = 1
             /\ InRunning(tasks[j].name) <= InRecord(tasks[j].name)
    /\ mpc = "returned" =>
         /\ Len(result_json) = Len(tasks)
         /\ \A j \in DOMAIN tasks :
                LET IsJob(e) == e.job = tasks[j].name
                IN Occurrences(result_json, IsJob) = 1

C9_Witness ==
    /\ mpc = "pool"
    /\ allocated # <<>>
    /\ no_execute # <<>>
    /\ waiting # {}
    /\ \E j \in DOMAIN tasks : InRunning(tasks[j].name) = 1

\* C10: the second of two FFD calls on the same mappings returns the schedule the
\* first returned, entry for entry, and no step of either call changes the
\* mappings.
C10_FFD_Deterministic ==
    /\ []((call = 2 /\ pc = "returned") => schedule = first_schedule)
    /\ [][job_capacities' = job_capacities
          /\ machine_capacities' = machine_capacities]_vars

C10_Witness ==
    /\ call = 2
    /\ pc = "returned"
    /\ Len(schedule) >= 2
    /\ Waited(schedule)

\* An input the interface calls invalid: no job, no machine, or a demand or a
\* capacity that is not positive
FFD_InvalidInput ==
    \/ job_capacities = <<>>
    \/ machine_capacities = <<>>
    \/ \E j \in DOMAIN job_capacities : job_capacities[j].qubits <= 0
    \/ \E k \in DOMAIN machine_capacities : machine_capacities[k].capacity <= 0

\* C11: an FFD call on an invalid input (no job, no machine, a non-positive demand
\* or capacity) is rejected before any job is placed: it never returns a schedule,
\* not even an empty one, never places an entry and never runs forever.
C11_FFD_RejectsInvalidInput ==
    (pc # "unused" /\ FFD_InvalidInput) =>
        (pc \notin {"returned", "hung"} /\ schedule = <<>>)

\* An entry of an FFD schedule against the call's mappings
FFD_EntryOK(e) ==
    /\ e.start >= 0
    /\ e.end >= e.start
    /\ e.duration = e.end - e.start
    /\ \E j \in DOMAIN job_capacities :
           job_capacities[j].job = e.job /\ job_capacities[j].qubits = e.qubits
    /\ \E k \in DOMAIN machine_capacities :
           /\ machine_capacities[k].machine = e.machine
           /\ machine_capacities[k].capacity = e.capacity
           /\ e.qubits <= machine_capacities[k].capacity

\* An entry of an MTMC schedule against the call's lists
MTMC_EntryOK(e) ==
    /\ e.start >= 0
    /\ e.end >= e.start
    /\ e.duration = e.end - e.start
    /\ \E j \in DOMAIN tasks : tasks[j].name = e.job /\ tasks[j].qubits = e.qubits
    /\ \E i \in DOMAIN chiplist :
           /\ chiplist[i].name = e.machine
           /\ chiplist[i].capacity = e.capacity
           /\ e.qubits <= chiplist[i].capacity

MTMC_AllPositive == \A j \in DOMAIN tasks : tasks[j].qubits > 0

\* C12: every entry of a schedule returned by FFD or by MTMC for positive demands
\* has start >= 0, end >= start, duration = end - start, the qubits of its input
\* job, at most its machine's capacity, a machine of the input, and as capacity that
\* machine's full input capacity.
C12_EntryFields ==
    /\ (pc = "returned" /\ FFD_AllPositive) =>
           \A k \in DOMAIN schedule : FFD_EntryOK(schedule[k])
    /\ (mpc = "returned" /\ MTMC_AllPositive) =>
           \A k \in DOMAIN result_json : MTMC_EntryOK(result_json[k])

\* An MTMC schedule with two tasks at once on one chip (the second was allocated
\* when the chip had less than its full capacity left) and a task that waited
C12_Witness ==
    /\ mpc = "returned"
    /\ MTMC_AllPositive
    /\ \E i, j \in DOMAIN result_json :
           /\ i # j
           /\ result_json[i].machine = result_json[j].machine
           /\ result_json[i].start = result_json[j].start
    /\ \E k \in DOMAIN result_json : result_json[k].start > 0

\* The entries of s whose interval [start, end) meets the candidate [t, t + d)
Meets(s, t, d) == {k \in DOMAIN s : s[k].start < t + d /\ t < s[k].end}

\* Summed qubits of a set of entries of s
RECURSIVE QubitsOf(_, _)
QubitsOf(s, K) ==
    IF K = {} THEN 0
    ELSE LET k == CHOOSE x \in K : TRUE IN s[k].qubits + QubitsOf(s, K \ {k})

\* The job fits at t: the demand of the entries met, plus its own, is within the
\* capacity
Fits(s, capacity, qubits, t, d) == QubitsOf(s, Meets(s, t, d)) + qubits <= capacity

\* t is the smallest non-negative integer at which the job fits
IsEarliest(s, capacity, qubits, d, t) ==
    /\ t >= 0
    /\ Fits(s, capacity, qubits, t, d)
    /\ \A u \in 0..(t - 1) : ~Fits(s, capacity, qubits, u, d)

\* The end times of entries after t
EndsAfter(s, t) == {s[k].end : k \in DOMAIN s} \cap {e \in 0..LastEnd(s) : e > t}


\* Start at 0 and jump to the next end time of an entry until the job fits; Inf
\* when the end times run out
EventJumpStart(s, capacity, qubits, d) ==
    LET RECURSIVE Jump(_)
        Jump(t) == IF Fits(s, capacity, qubits, t, d) THEN t
                   ELSE IF EndsAfter(s, t) = {} THEN Inf
                   ELSE Jump(Min(EndsAfter(s, t)))
    IN Jump(0)

\* C19: what find_earliest_start returns (the component's, with duration
\* job_qubits * base_time_per_qubit, and the benchmarks', with duration job_qubits)
\* is the smallest non-negative integer t at which the job fits on the machine,
\* and it is the value reached by starting at 0 and jumping from end time to next
\* end time until the job fits; the loop fails to return only when the job fits
\* at no t.
C19_EarliestStart ==
    /\ fes_result # Inf =>
           /\ IsEarliest(fes_schedule, fes_capacity, fes_qubits, FES_Duration,
                         fes_result)
           /\ fes_result = EventJumpStart(fes_schedule, fes_capacity, fes_qubits,
                                          FES_Duration)
    /\ bench_result # Inf =>
           /\ IsEarliest(fes_schedule, fes_capacity, fes_qubits, Bench_Duration,
                         bench_result)
           /\ bench_result = EventJumpStart(fes_schedule, fes_capacity, fes_qubits,
                                            Bench_Duration)
    /\ fes_pc = "hung" =>
           \A u \in 0..(LastEnd(fes_schedule) + 1) :
               ~Fits(fes_schedule, fes_capacity, fes_qubits, u, FES_Duration)
    /\ fes_pc = "bench_hung" =>
           \A u \in 0..(LastEnd(fes_schedule) + 1) :
               ~Fits(fes_schedule, fes_capacity, fes_qubits, u, Bench_Duration)

\* Both functions have returned a start that is the second end time tried: the
\* job did not fit at 0 nor at the first end time
C19_Witness ==
    /\ fes_pc = "done"
    /\ fes_result # Inf
    /\ bench_result # Inf
    /\ EndsAfter(fes_schedule, 0) # {}
    /\ fes_result > Min(EndsAfter(fes_schedule, 0))
    /\ bench_result > Min(EndsAfter(fes_schedule, 0))

\* C20: the test made by either function counts an entry exactly when neither
\* t + d <= entry.start nor t >= entry.end, and accepts iff the summed qubits of
\* the entries counted plus the job's are at most the capacity; on the arguments
\* of every test made the inline test of the component and can_run_at_time of the
\* benchmarks give one answer.
C20_FeasibilityTest ==
    fes_answer # NoAnswer =>
        /\ \A k \in DOMAIN fes_schedule :
               Overlaps(fes_answer.t, fes_answer.duration, fes_schedule[k])
               <=> k \in Meets(fes_schedule, fes_answer.t, fes_answer.duration)
        /\ fes_answer.ok = Fits(fes_schedule, fes_capacity, fes_qubits,
                                fes_answer.t, fes_answer.duration)
        /\ fes_answer.ok = Feasible(fes_schedule, fes_capacity, fes_qubits,
                                    fes_answer.t, fes_answer.duration)
        /\ fes_answer.ok = can_run_at_time(fes_schedule, fes_capacity, fes_qubits,
                                           fes_answer.t, fes_answer.duration)

\* A test by can_run_at_time that failed with one entry counted and another, which
\* ends exactly at the probed start, not counted
C20_Witness ==
    /\ fes_pc = "benchmark"
    /\ fes_answer # NoAnswer
    /\ ~fes_answer.ok
    /\ Meets(fes_schedule, fes_answer.t, fes_answer.duration) # {}
    /\ \E k \in DOMAIN fes_schedule : fes_schedule[k].end = fes_answer.t

\* The earliest start at which the job fits on a machine's schedule, Inf when it
\* fits nowhere
EarliestFit(s, capacity, qubits, d) ==
    LET starts == {t \in 0..LastEnd(s) : Fits(s, capacity, qubits, t, d)}
    IN IF starts = {} THEN Inf ELSE Min(starts)

C17_CheckIsPure ==
    /\ []((val_call = 2 /\ val_pc \in {"returned", "raised"}) =>
              val_verdict = val_first)
    /\ [][val_schedule' = val_schedule /\ val_machines' = val_machines]_vars

\* The second check has failed on an entry that follows one that passed
C17_Witness ==
    /\ val_call = 2
    /\ val_pc = "raised"
    /\ val_first = "invalid"
    /\ val_i >= 2

\* The qubits of the rows that hold the machine at timestep t
RECURSIVE RowsLoad(_, _, _)
RowsLoad(rows, machine, t) ==
    IF rows = <<>> THEN 0
    ELSE (IF Head(rows).machine = machine /\ Head(rows).start <= t /\ t < Head(rows).end
          THEN Head(rows).qubits ELSE 0) + RowsLoad(Tail(rows), machine, t)

\* C13: in every assignment of the base formulation's variables that satisfies its
\* constraints, the summed qubits of the real jobs occupying a machine at a
\* timestep is at most the machine's capacity; and in the schedule read back from
\* the document (machine from x, interval from the first occupied timestep to the
\* last occupied timestep + 1) the rows holding a machine at a timestep sum to at
\* most its capacity.
C13_SolvedCapacity ==
    /\ (lp_status = "Optimal" /\ lp_values # NoValues) =>
           \A k \in DOMAIN lp_accelerators : \A t \in LP_T :
               SeqSum([j \in DOMAIN lp_job_capacities |->
                          lp_values[1].z[j][k][t] * lp_job_capacities[j].qubits])
                   <= lp_accelerators[k].capacity
    /\ (lp_status = "Optimal" /\ lp_pc = "read") =>
           \A k \in DOMAIN lp_accelerators : \A t \in 0..(ReaderTimesteps - 1) :
               RowsLoad(rows_list, lp_accelerators[k].machine, t)
                   <= lp_accelerators[k].capacity

\* Two rows read back share a machine at a timestep, one of them lasting more
\* than one timestep
C13_Witness ==
    /\ lp_status = "Optimal"
    /\ lp_pc = "read"
    /\ \E a \in DOMAIN rows_list : \E b \in DOMAIN rows_list :
           /\ a # b
           /\ rows_list[a].machine = rows_list[b].machine
           /\ rows_list[a].start < rows_list[b].end
           /\ rows_list[b].start < rows_list[a].end
           /\ rows_list[a].duration > 1

\* C14: the exact scheduler yields a schedule only if the solver reported a
\* solution: when the solver reports infeasibility or stops without a solution,
\* nothing is extracted, returned or written.
C14_NoScheduleWithoutSolution ==
    (lp_pc \notin {"unused", "idle"} /\ lp_status # "Optimal") =>
        /\ lp_pc = "raised"
        /\ lp_extracted = <<>>
        /\ lp_doc = NoDoc

\* The predecessor the re-simulation takes for the job at position i
PredecessorOf(i) ==
    LET on == {j \in DOMAIN lp_extracted :
                   lp_extracted[j].machine = lp_extracted[i].machine}
    IN  IF lp_extracted[i].start_time = 0 THEN DummyJob(lp_extracted[i].machine)
        ELSE find_last_completed(i, lp_extracted, on, lp_extracted[i].machine)

\* The row of a name in the problem's matrices, and the column of a machine
RowOf(name) == PosIn(job_names(Len(lp_job_capacities)), name)
ColumnOf(machine) == PosIn(machine_names(lp_accelerators), machine)

\* C15: after the re-simulation of a solved schedule, the start of every job is
\* the recomputed completion of its predecessor (0 when it has none), its
\* completion is its start + process_time[job][machine] +
\* setup_time[predecessor][job][machine], and the makespan returned is the
\* greatest recomputed completion.  (Times in half units.)
C15_Resimulation ==
    (lp_pc \in {"written", "read"} /\ lp_status = "Optimal") =>
        /\ \A i \in DOMAIN lp_jobs :
               LET pred == PredecessorOf(i)
                   k == ColumnOf(lp_jobs[i].machine)
                   start == IF pred.name = "0" THEN 0
                            ELSE lp_jobs[RowOf(pred.name) - 1].completion_time
               IN  /\ lp_jobs[i].start_time = start
                   /\ lp_jobs[i].completion_time =
                          lp_jobs[i].start_time
                          + 2 * processing_times(lp_job_capacities, lp_accelerators)
                                    [RowOf(lp_jobs[i].name)][k]
                          + 2 * setup_times(lp_job_capacities, lp_accelerators)
                                    [RowOf(pred.name)][RowOf(lp_jobs[i].name)][k]
        /\ lp_makespan = Max({lp_jobs[i].completion_time : i \in DOMAIN lp_jobs})

\* The keys the reader looks the parameters up under (lines 21-24 of the reader)
ReaderKeys == {"jobs", "machines", "job_capcities", "machine_capacities"}

\* C16: the document written has a params object whose keys are exactly jobs,
\* machines, job_capacities, machine_capacities, timesteps, processing_times and
\* setup_times, and a variables object with an entry for every solved variable of
\* the families x_ik_, z_ikt_, s_j_ and c_j_ and for no other variable; the
\* reader looks the parameters up under keys of that params object.
C16_DocumentLayout ==
    lp_pc \in {"written", "read"} =>
        /\ DOMAIN lp_doc[1].params =
               {"jobs", "machines", "job_capacities", "machine_capacities",
                "timesteps", "processing_times", "setup_times"}
        /\ DOMAIN lp_doc[1].variables =
               {v \in ProblemVariables(Len(lp_job_capacities), lp_accelerators) :
                    v[1] \in {"x", "z", "s", "c"}}
        /\ ReaderKeys \subseteq DOMAIN lp_doc[1].params

(***************************************************************************)
(* MTMC: one tick's allocation                                             *)
(***************************************************************************)
\* The capacity chip `name` had when the tick's pool was started: what it has now
\* plus what the tick's allocations took from it (line 53)
TickStartCapacity(name) ==
    chip_status[name].capacity
    + SeqSum([a \in DOMAIN allocated |->
                IF allocated[a].assigned_chip = name THEN allocated[a].qubits ELSE 0])

TickStartStatus ==
    [name \in DOMAIN chip_status |->
        [capacity |-> TickStartCapacity(name), running_tasks |-> <<>>]]

\* allocate_task (lines 47-64) run for tasklist[1], ..., tasklist[k] one after
\* another: the chips' capacities afterwards and the chip of every task, <<>>
\* for a task no chip could take
RECURSIVE InListOrder(_)
InListOrder(k) ==
    IF k = 0 THEN [status |-> TickStartStatus, chip |-> <<>>]
    ELSE LET before == InListOrder(k - 1)
             task == tasklist[k]
             possible_chips == PossibleChips(before.status, task)
         IN IF possible_chips = {}
            THEN [before EXCEPT !.chip = Append(@, <<>>)]
            ELSE LET selected_chip ==
                         chiplist[SelectedChip(before.status, possible_chips)].name
                 IN [status |-> [before.status EXCEPT
                                   ![selected_chip].capacity = @ - task.qubits],
                     chip |-> Append(before.chip, <<selected_chip>>)]

\* The pool has run every worker of the tick
PoolDone == mpc = "pool" /\ waiting = {}

\* The chip the tick gave tasklist[k], <<>> when the task was left pending
ChipGiven(k) ==
    IF \E a \in DOMAIN allocated : allocated[a].name = tasklist[k].name
    THEN <<allocated[CHOOSE a \in DOMAIN allocated :
                        allocated[a].name = tasklist[k].name].assigned_chip>>
    ELSE <<>>

\* C21: in each tick, which pending tasks are allocated and on which chip is what
\* attempting the pending tasks one after another in ascending string order of
\* their names gives, whatever the order in which the workers take the lock.
C21_MTMC_ListOrderOutcome ==
    PoolDone =>
        \A k \in DOMAIN tasklist : ChipGiven(k) = InListOrder(Len(tasklist)).chip[k]

\* The entries MTMC has placed on chip `name` so far, this tick's included, as the
\* feasibility primitive reads them (start, end, qubits)
PlacedOn(name) ==
    LET placed == results_success \o allocated
        OnChip(t) == t.assigned_chip = name
        on == SelectSeq(placed, OnChip)
    IN [k \in DOMAIN on |-> [job |-> on[k].name, qubits |-> on[k].qubits,
                             start |-> on[k].start_time, end |-> on[k].end_time]]

\* C22: at every tick T a chip counts as able to take a pending task of d qubits
\* exactly when the feasibility primitive of FFD accepts the entries already
\* placed on the chip, the chip's capacity, d qubits, start T and duration d.
C22_MTMC_AgreesWithPrimitive ==
    mpc = "pool" =>
        \A k \in waiting : \A i \in DOMAIN chiplist :
            CanTake(chip_status[chiplist[i].name], tasklist[k])
            <=> Feasible(PlacedOn(chiplist[i].name), chiplist[i].capacity,
                         tasklist[k].qubits, global_time, tasklist[k].qubits)

\* A pending task is refused by a chip that holds an entry which has ended and an
\* entry which is running
C22_Witness ==
    /\ mpc = "pool"
    /\ \E k \in waiting : \E i \in DOMAIN chiplist :
          LET placed == PlacedOn(chiplist[i].name)
          IN /\ ~CanTake(chip_status[chiplist[i].name], tasklist[k])
             /\ \E e \in DOMAIN placed : placed[e].end <= global_time
             /\ \E e \in DOMAIN placed : placed[e].end > global_time

\* The place of chip `name` in the chip list
ChipIndex(name) == CHOOSE i \in DOMAIN chiplist : chiplist[i].name = name

\* The capacity left on the i-th chip of the list
CapacityLeft(i) == chip_status[chiplist[i].name].capacity

\* C23: when a task is allocated, the chosen chip has the greatest remaining
\* capacity among the chips whose remaining capacity is at least the task's
\* qubits, and is the first of the chip list among those of equal remaining
\* capacity; a task is left pending only if, when it was attempted, no chip's
\* remaining capacity was at least its qubits.
C23_MTMC_ChipChoice ==
    [][/\ Len(allocated') = Len(allocated) + 1 =>
             LET task == allocated'[Len(allocated')]
                 c == ChipIndex(task.assigned_chip)
             IN /\ CapacityLeft(c) >= task.qubits
                /\ \A j \in DOMAIN chiplist :
                      CapacityLeft(j) >= task.qubits =>
                          /\ CapacityLeft(j) <= CapacityLeft(c)
                          /\ CapacityLeft(j) = CapacityLeft(c) => c <= j
       /\ Len(no_execute') = Len(no_execute) + 1 =>
             LET task == no_execute'[Len(no_execute')]
             IN \A j \in DOMAIN chiplist : CapacityLeft(j) < task.qubits
      ]_vars

\* A task has just been allocated on a chip although a later chip of the list had
\* the same remaining capacity, and another task of the tick was left pending
C23_Witness ==
    /\ mpc = "pool"
    /\ allocated # <<>>
    /\ no_execute # <<>>
    /\ LET task == allocated[Len(allocated)]
           c == ChipIndex(task.assigned_chip)
       IN \E j \in DOMAIN chiplist :
             /\ c < j
             /\ CapacityLeft(j) = CapacityLeft(c) + task.qubits

\* The tasks MTMC has recorded so far: line 32 adds a tick's allocations to
\* results_success when the pool is done
Recorded == IF mpc = "pool" THEN results_success \o allocated ELSE results_success

\* The tick whose pass over the running tasks (lines 22-29) was the last to run
LastTick == IF mpc = "pool" THEN global_time ELSE global_time - 1

\* The task named `name` is in the running set of chip `chip`
RunsOn(name, chip) ==
    \E r \in DOMAIN chip_status[chip].running_tasks :
        chip_status[chip].running_tasks[r].name = name

\* Summed qubits of the recorded tasks of chip `chip` with start <= t < end
RecordedLoad(chip, t) ==
    SeqSum([k \in DOMAIN Recorded |->
              IF /\ Recorded[k].assigned_chip = chip
                 /\ Recorded[k].start_time <= t
                 /\ t < Recorded[k].end_time
              THEN Recorded[k].qubits ELSE 0])

\* C24: a task allocated at tick T is recorded with start = T and end = T + qubits,
\* is in its chip's running set during the ticks T to T + qubits - 1, and its
\* qubits are back in the chip's remaining capacity in tick T + qubits before that
\* tick's allocation attempts; no task starts on capacity that is not yet freed.
C24_MTMC_RunsForItsDemand ==
    MTMC_Started =>
        /\ \A k \in DOMAIN Recorded :
              /\ Recorded[k].end_time = Recorded[k].start_time + Recorded[k].qubits
              /\ Recorded[k].start_time <= LastTick
              /\ \A c \in DOMAIN chip_status :
                    RunsOn(Recorded[k].name, c)
                    <=> /\ c = Recorded[k].assigned_chip
                        /\ LastTick < Recorded[k].end_time
              /\ RecordedLoad(Recorded[k].assigned_chip, Recorded[k].start_time)
                     <= chiplist[ChipIndex(Recorded[k].assigned_chip)].capacity
        /\ mpc = "pool" =>
              \A a \in DOMAIN allocated : allocated[a].start_time = global_time
        /\ \A i \in DOMAIN chiplist :
              CapacityLeft(i)
                  = chiplist[i].capacity - RecordedLoad(chiplist[i].name, LastTick)

\* A task that was pending starts at the very tick another task of its chip ends,
\* on capacity that was not there one tick earlier
C24_Witness ==
    /\ mpc = "pool"
    /\ \E a \in DOMAIN allocated : \E k \in DOMAIN results_success :
          /\ results_success[k].assigned_chip = allocated[a].assigned_chip
          /\ results_success[k].end_time = global_time
          /\ RecordedLoad(allocated[a].assigned_chip, global_time - 1)
                 + allocated[a].qubits
                 > chiplist[ChipIndex(allocated[a].assigned_chip)].capacity

\* Summed qubits of the tasks in the running set of chip `name`
RunningQubits(name) ==
    SeqSum([r \in DOMAIN chip_status[name].running_tasks |->
              chip_status[name].running_tasks[r].qubits])

\* C25: at every point of a run with positive qubits, under every interleaving of
\* the allocation workers, each chip's remaining capacity is its capacity minus
\* the summed qubits of the tasks in its running set, and lies between 0 and its
\* capacity.
C25_MTMC_CapacityAccount ==
    (MTMC_Started /\ MTMC_AllPositive) =>
        \A i \in DOMAIN chiplist :
            /\ CapacityLeft(i) = chiplist[i].capacity - RunningQubits(chiplist[i].name)
            /\ CapacityLeft(i) >= 0
            /\ CapacityLeft(i) <= chiplist[i].capacity

\* Between two workers of a tick: a chip holds two tasks, nothing is left of its
\* capacity, and workers are still to run
C25_Witness ==
    /\ mpc = "pool"
    /\ waiting # {}
    /\ \E i \in DOMAIN chiplist :
          /\ Len(chip_status[chiplist[i].name].running_tasks) = 2
          /\ CapacityLeft(i) = 0

\* No chip has the capacity left that `task` asks for
NoChipCouldTake(task) == \A i \in DOMAIN chiplist : task.qubits > CapacityLeft(i)

\* C26: at the end of every tick, under every interleaving, every task that is
\* still pending has more qubits than the remaining capacity of every chip: no
\* task is kept waiting for the next tick while some chip could have taken it.
C26_MTMC_NoNeedlessWait ==
    /\ PoolDone => \A k \in DOMAIN no_execute : NoChipCouldTake(no_execute[k])
    /\ (mpc = "loop" /\ global_time > 0) =>
           \A k \in DOMAIN task_remaining : NoChipCouldTake(task_remaining[k])

\* A tick ends with a task kept pending although a chip has capacity left, too
\* little for it, after another task of the tick was allocated
C26_Witness ==
    /\ mpc = "loop"
    /\ global_time > 0
    /\ task_remaining # <<>>
    /\ allocated # <<>>
    /\ \E i \in DOMAIN chiplist : CapacityLeft(i) > 0

\* The call has a task of 0 qubits
MTMC_HasZero == \E j \in DOMAIN tasks : tasks[j].qubits = 0

\* C27: MTMC skips a task of 0 qubits: a call whose input has such a task still
\* returns, and that task never keeps a chip's running set non-empty.
C27_MTMC_SkipsZeroDemand ==
    /\ \A i \in DOMAIN chiplist :
          MTMC_Started =>
              \A r \in DOMAIN chip_status[chiplist[i].name].running_tasks :
                  chip_status[chiplist[i].name].running_tasks[r].qubits > 0
    /\ (MTMC_HasZero /\ chiplist # <<>>) => ~MTMC_OutOfTicks

(***************************************************************************)
(* FFD: the order of placement                                             *)
(***************************************************************************)
\* The place of job `name` in the input mapping (a dict keeps insertion order)
InputIndex(name) == CHOOSE i \in DOMAIN job_capacities : job_capacities[i].job = name

\* The call is under way or has returned
FFD_Running == pc \in {"jobs", "machines", "returned"}

\* The entries of the list that sit on machine `name`, in the list's order
ScheduleOn(name) ==
    LET IsOn(e) == e.machine = name
    IN SelectSeq(schedule, IsOn)

\* C28: FFD places jobs in non-increasing order of qubits, jobs of equal qubits
\* in the order of the input mapping, and the returned list is in that placement
\* order, not in the order of the start times.
C28_FFD_PlacementOrder ==
    FFD_Running =>
        /\ \A a, b \in DOMAIN schedule :
              a < b =>
                  /\ schedule[a].qubits >= schedule[b].qubits
                  /\ schedule[a].qubits = schedule[b].qubits =>
                         InputIndex(schedule[a].job) < InputIndex(schedule[b].job)
        /\ \A name \in MachineNames : machines[name] = ScheduleOn(name)

\* The returned list has two jobs of equal qubits and a job that starts earlier
\* than the job placed before it
C28_Witness ==
    /\ pc = "returned"
    /\ \E a, b \in DOMAIN schedule :
          /\ a < b
          /\ schedule[a].qubits = schedule[b].qubits
          /\ InputIndex(schedule[a].job) < InputIndex(schedule[b].job)
    /\ \E a \in DOMAIN schedule :
          /\ a + 1 \in DOMAIN schedule
          /\ schedule[a + 1].start < schedule[a].start

(***************************************************************************)
(* FFD as a function of its input                                          *)
(***************************************************************************)
\* lines 44-60: the inner loop over the machines from machine k on, `best` being
\* <<>> or <<the entry chosen so far>>; "hung" when find_earliest_start does not
\* return
RECURSIVE ChooseMachine(_, _, _, _)
ChooseMachine(local, item, k, best) ==
    IF k > Len(machine_capacities) THEN [hung |-> FALSE, best |-> best]
    ELSE LET machine_name == machine_capacities[k].machine
             capacity == machine_capacities[k].capacity
             found == FindEarliestStart(local[machine_name], capacity, item.qubits,
                                        base_time_per_qubit)
         IN IF ~found.ret THEN [hung |-> TRUE, best |-> best]
            ELSE IF Earlier(found.t, IF best = <<>> THEN Inf ELSE best[1].start)
                 THEN ChooseMachine(local, item, k + 1,
                          <<Entry(item.job, item.qubits, machine_name, capacity,
                                  found.t, item.qubits * base_time_per_qubit)>>)
                 ELSE ChooseMachine(local, item, k + 1, best)

\* lines 25-72 for the mapping `items`: how the call ends and the list it has
\* built
schedule_jobs_parallel(items) ==
    LET sorted == SortedJobs(items)
        RECURSIVE Go(_)
        Go(k) ==
            IF k = 0 THEN [end |-> "returned", machines |-> EmptyMachines,
                           schedule |-> <<>>]
            ELSE LET before == Go(k - 1)
                 IN IF before.end # "returned" \/ SkipsJob(sorted[k].qubits)
                    THEN before
                    ELSE LET chosen == ChooseMachine(before.machines, sorted[k], 1, <<>>)
                         IN IF chosen.hung THEN [before EXCEPT !.end = "hung"]
                            ELSE IF chosen.best = <<>> \/ ~Truthy(chosen.best[1].machine)
                                 THEN [before EXCEPT !.end = "raised"]
                                 ELSE [end |-> "returned",
                                       machines |->
                                           [before.machines EXCEPT
                                              ![chosen.best[1].machine] =
                                                   Append(@, chosen.best[1])],
                                       schedule |-> Append(before.schedule,
                                                           chosen.best[1])]
    IN Go(Len(sorted))

\* The input mapping without its jobs of 0 qubits
WithoutZero(items) ==
    LET Positive(item) == item.qubits # 0
    IN SelectSeq(items, Positive)

\* C29: a job of 0 qubits is never placed by FFD: it is absent from the output,
\* it is added to no machine's local schedule, and removing it from the input
\* leaves the placement of every other job unchanged.
C29_FFD_ZeroDemandSkipped ==
    /\ \A k \in DOMAIN schedule : schedule[k].qubits # 0
    /\ FFD_Running =>
           \A name \in MachineNames :
               \A k \in DOMAIN machines[name] : machines[name][k].qubits # 0
    /\ FFD_Ended =>
           LET without == schedule_jobs_parallel(WithoutZero(job_capacities))
           IN /\ without.end = pc
              /\ without.schedule = schedule

\* A call returns two placed jobs from an input that has a job of 0 qubits before
\* them
C29_Witness ==
    /\ pc = "returned"
    /\ Len(schedule) >= 2
    /\ \E i \in DOMAIN job_capacities :
          /\ job_capacities[i].qubits = 0
          /\ \E j \in DOMAIN job_capacities :
                i < j /\ job_capacities[j].qubits > 0

\* C30: every entry produced by FFD has a duration equal to the job's qubits
\* (end = start + qubits), the convention of MTMC, for a list produced through
\* example_problem as well as for one produced by the scheduling function called
\* directly.
C30_FFD_DurationIsDemand ==
    \A k \in DOMAIN schedule :
        /\ schedule[k].duration = schedule[k].qubits
        /\ schedule[k].end = schedule[k].start + schedule[k].qubits

(***************************************************************************)
(* The exact scheduler: the caller's objects, the names, the big-M         *)
(***************************************************************************)
\* C31: a call of the exact scheduler's example_problem leaves the caller's jobs
\* list and its job_capacities and machine_capacities mappings as they were, so
\* a second call given the same objects is not affected by the first.
C31_LP_ArgumentsUnchanged ==
    lp_pc # "unused" =>
        /\ lp_args = CallerArgs(lp_job_capacities, lp_accelerators)
        /\ lp_call = 2 => lp_status # "KeyError"

\* C32: during the re-simulation no job is taken as its own predecessor: for
\* every solved schedule, those where a job's solved completion is not after its
\* solved start included, the predecessor found for a job is the synthetic job
\* "0" or another job of the same machine.
C32_LP_NoSelfPredecessor ==
    (lp_pc \in {"written", "read"} /\ lp_status = "Optimal") =>
        \A i \in DOMAIN lp_extracted :
            LET pred == PredecessorOf(i)
            IN \/ pred.name = "0"
               \/ /\ pred.name # lp_extracted[i].name
                  /\ pred.machine = lp_extracted[i].machine

\* C33: for every real job j and machine m, the process time the re-simulation
\* charges for (j, m) is the entry of the problem's process_times the extended
\* formulation uses for (j, m) in its completion-time constraint.
C33_LP_SameProcessTime ==
    lp_pc \in {"written", "read"} =>
        \A j \in DOMAIN lp_job_capacities : \A k \in DOMAIN lp_accelerators :
            SimulationProcessTime(lp_job_capacities, lp_accelerators,
                                  ToString(j), lp_accelerators[k].machine)
            = ExtendedProcessTime(lp_job_capacities, lp_accelerators,
                                  ToString(j), lp_accelerators[k].machine)

\* C34: the big-M of every linearised constraint of the extended formulation is
\* the big_m configured for the problem (InfoProblem.big_m), the value the base
\* formulation uses; another configured big_m gives another constant in the
\* extended constraints.
C34_LP_ConfiguredBigM ==
    lp_built # NotBuilt =>
        /\ lp_built.base = lp_big_m
        /\ lp_built.extended = lp_big_m

\* The variables of real job j in the solved values
SolvedRow(j) ==
    [x |-> lp_values[1].x[j], z |-> lp_values[1].z[j],
     s |-> lp_values[1].s[j], c |-> lp_values[1].c[j]]

\* C35: in every assignment that satisfies the base formulation each real job has
\* at least one occupied timestep, all its occupied timesteps are on the single
\* machine with x = 1 and lie between s[job] and c[job], their number is
\* c[job] - s[job] + 1, and s[job] <= c[job].  (s and c in half units.)
C35_LP_OccupancyIsDuration ==
    (lp_pc \in {"written", "read"} /\ lp_status = "Optimal") =>
        \A j \in DOMAIN lp_job_capacities :
            LET row == SolvedRow(j)
                occupied == {<<k, t>> \in LP_M \X LP_T : row.z[k][t] = 1}
            IN /\ occupied # {}
               /\ Cardinality({k \in LP_M : row.x[k] = 1}) = 1
               /\ \A kt \in occupied :
                     /\ row.x[kt[1]] = 1
                     /\ row.s <= 2 * kt[2]
                     /\ 2 * kt[2] <= row.c
               /\ 2 * Cardinality(occupied) = row.c - row.s + 2
               /\ row.s <= row.c

\* C36: for every job and machine id, the job and the machine the extraction
\* recovers from the names x_ik_<job>_<machine>, s_j_<job> and c_j_<job> are the
\* original ids, ids with an underscore included: every job gets the machine
\* the solver assigned to it.
C36_Names_RoundTrip ==
    nm_pc = "extracted" =>
        \A j \in DOMAIN nm_x :
            /\ nm_extracted[j].job = ToString(j)
            /\ nm_extracted[j].s_key = <<ToString(j)>>
            /\ nm_extracted[j].c_key = <<ToString(j)>>
            /\ <<nm_extracted[j].machine>> = nm_machines[nm_x[j]]

\* The names of job_data that are keys of scheduler_job, and those that are not
UpdPresent == {upd_job_data[k].job : k \in DOMAIN upd_job_data} \cap DOMAIN upd_scheduler_job
UpdMissing == {upd_job_data[k].job : k \in DOMAIN upd_job_data} \ DOMAIN upd_scheduler_job

\* C37: with strict_mode on, update_scheduler_jobs raises as soon as a job of
\* job_data is not in scheduler_job: the loop never goes past such a job and
\* the call never returns a result.  With strict_mode off the call returns, the
\* missing jobs are the skipped ones and every job that is present is updated.
C37_Upd_StrictRaisesElseSkips ==
    /\ (upd_pc \in {"loop", "returned"} /\ upd_strict_mode) =>
           \A k \in 1..(upd_i - 1) : upd_job_data[k].job \in DOMAIN upd_scheduler_job
    /\ (upd_pc = "returned" /\ ~upd_strict_mode) =>
           /\ upd_result.skipped_jobs = UpdMissing
           /\ upd_result.updated_jobs = UpdPresent
           /\ upd_result.errors = {}
           /\ \A k \in DOMAIN upd_job_data :
                  (\A l \in (k + 1)..Len(upd_job_data) :
                       upd_job_data[l].job # upd_job_data[k].job)
                  /\ upd_job_data[k].job \in DOMAIN upd_scheduler_job
                  => upd_scheduler_job[upd_job_data[k].job] = upd_job_data[k].qubits

====
